---- MODULE Spec2Model ----
(***************************************************************************)
(* RenderScene (src/unnamed/part_001): the scene's entity bookkeeping, the *)
(* packed arrays that mirror its logical lists, the main light, and the    *)
(* raycast entry points with their module-level result pools.              *)
(***************************************************************************)
EXTENDS Integers, Sequences, FiniteSets, TLC

----------------------------------------------------------------------------
(* Bounds and finite universes                                             *)

\* Largest number of list entries (all five lists together) one scene holds.
MaxEntities == 3

\* Largest number of indices of the index buffers the narrow phase is run on alone.
MaxIndices == 5

\* Largest number of model ids one scene is asked for.
MaxIds == 3

\* Largest number of calls of the sprite frame's setters in one behaviour.
MaxSetterCalls == 2

\* Largest number of records one reset-epoch of the result pool is driven to.
MaxAdds == 9

Scenes == {"S1", "S2"}
Cameras == {"camA", "camB"}
DirLights == {"L1", "L2"}
SphereLights == {"sphA", "sphB"}
SpotLights == {"spotA", "spotB"}
Models == {"mA", "mB"}
Entities == Cameras \cup DirLights \cup SphereLights \cup SpotLights \cup Models
Names == {"main"}

\* The JavaScript null reference.
null == "null"

\* The sentinel of an unallocated handle (falsy in `if (handle)`).
NULL_HANDLE == 0

\* TransformBit.ROTATION, or-ed into hasChangedFlags by unsetMainLight.
ROTATION == 2

----------------------------------------------------------------------------
(* Sequences as JavaScript arrays (0-based indices in the source)          *)

Range(seq) == {seq[i] : i \in 1..Len(seq)}

\* Array.prototype.splice(i, 1) with 0-based i.
Splice(seq, i) == [k \in 1..(Len(seq) - 1) |-> IF k <= i THEN seq[k] ELSE seq[k + 1]]

IndexOfLast(seq, e) ==
    IF e \in Range(seq)
    THEN (CHOOSE i \in 1..Len(seq) : seq[i] = e /\ \A k \in (i + 1)..Len(seq) : seq[k] # e) - 1
    ELSE -1

\* for (i = 0; i < list.length; ++i) if (list[i] === e): the first match, 0-based,
\* or -1 when the loop ends without one.
IndexOf(seq, e) ==
    IF e \in Range(seq)
    THEN (CHOOSE i \in 1..Len(seq) : seq[i] = e /\ \A k \in 1..(i - 1) : seq[k] # e) - 1
    ELSE -1

\* a | b on small non-negative integers.
RECURSIVE BitOr(_, _)
BitOr(a, b) ==
    IF a = 0 THEN b
    ELSE IF b = 0 THEN a
    ELSE (IF a % 2 = 1 \/ b % 2 = 1 THEN 1 ELSE 0) + 2 * BitOr(a \div 2, b \div 2)

----------------------------------------------------------------------------
(* The packed pools of core/memory-pools (ScenePool, ModelArrayPool,       *)
(* LightArrayPool): handle-indexed stores; a handle is a slot number >= 1. *)

\* One slot (two light arrays) more than the scenes can hold at once: the pools never
\* run out.
ModelArraySlots == 1..(Cardinality(Scenes) + 1)
LightArraySlots == 1..(2 * Cardinality(Scenes) + 2)
SceneSlots == 1..(Cardinality(Scenes) + 1)

FreeArray == [live |-> FALSE, data |-> <<>>]
FreeSceneRecord == [live |-> FALSE, MAIN_LIGHT |-> NULL_HANDLE, MODEL_ARRAY |-> NULL_HANDLE,
                    SPOT_LIGHT_ARRAY |-> NULL_HANDLE, SPHERE_LIGHT_ARRAY |-> NULL_HANDLE]

\* A handle that denotes a slot currently allocated in the pool.
Live(pool, h) == h \in DOMAIN pool /\ pool[h].live

\* alloc(): the handle of a fresh slot.
AllocHandle(pool) == CHOOSE h \in DOMAIN pool : ~pool[h].live /\ \A k \in DOMAIN pool : k < h => pool[k].live

\* alloc() of an array pool: the new array has zero logical length.
ArrayAlloc(pool) == [pool EXCEPT ![AllocHandle(pool)] = [live |-> TRUE, data |-> <<>>]]

SceneAlloc(pool) == [pool EXCEPT ![AllocHandle(pool)] = [FreeSceneRecord EXCEPT !.live = TRUE]]

\* free(handle): releases the slot; on a handle that is not allocated it changes nothing.
PoolFree(pool, h) ==
    IF Live(pool, h)
    THEN [pool EXCEPT ![h] = IF "data" \in DOMAIN pool[h] THEN FreeArray ELSE FreeSceneRecord]
    ELSE pool

\* push(handle, value): appends one packed entry; a no-op on an unallocated handle.
ArrayPush(pool, h, v) == IF Live(pool, h) THEN [pool EXCEPT ![h].data = Append(@, v)] ELSE pool

\* erase(handle, index): removes entry `index` (0-based), shifting the later entries down;
\* the index is validated against the logical length.
ArrayErase(pool, h, i) ==
    IF Live(pool, h) /\ i >= 0 /\ i < Len(pool[h].data)
    THEN [pool EXCEPT ![h].data = Splice(@, i)]
    ELSE pool

\* clear(handle): logical length 0, storage kept.
ArrayClear(pool, h) == IF Live(pool, h) THEN [pool EXCEPT ![h].data = <<>>] ELSE pool

\* ScenePool.set(handle, field, value).
SceneSet(pool, h, field, v) ==
    IF Live(pool, h)
    THEN [pool EXCEPT ![h] = [f \in DOMAIN pool[h] |-> IF f = field THEN v ELSE pool[h][f]]]
    ELSE pool

----------------------------------------------------------------------------
(* Entities                                                                *)

\* light.handle: the light's slot in the light pool, fixed while the light lives.
LightHandle(l) ==
    CASE l = "L1" -> 31 [] l = "L2" -> 32
      [] l = "sphA" -> 11 [] l = "sphB" -> 12
      [] l = "spotA" -> 21 [] l = "spotB" -> 22

\* model.handle of a model that has been initialised and not destroyed.
InitialModelHandle(m) == CASE m = "mA" -> 41 [] m = "mB" -> 42

----------------------------------------------------------------------------
(* State                                                                   *)

VARIABLES
    name,                \* [scene]  RenderScene._name
    cameras,             \* [scene]  RenderScene._cameras
    models,              \* [scene]  RenderScene._models
    directionalLights,   \* [scene]  RenderScene._directionalLights
    sphereLights,        \* [scene]  RenderScene._sphereLights
    spotLights,          \* [scene]  RenderScene._spotLights
    mainLight,           \* [scene]  RenderScene._mainLight
    modelId,             \* [scene]  RenderScene._modelId
    scenePoolHandle,     \* [scene]  RenderScene._scenePoolHandle
    modelArrayHandle,    \* [scene]  RenderScene._modelArrayHandle
    sphereLightsHandle,  \* [scene]  RenderScene._sphereLightsHandle
    spotLightsHandle,    \* [scene]  RenderScene._spotLightsHandle
    ScenePool,           \* slot -> packed scene record
    ModelArrayPool,      \* slot -> packed model array
    LightArrayPool,      \* slot -> packed light array
    entityScene,         \* [entity] the scene the entity is attached to, or null
    modelHandle,         \* [model]  Model.handle
    lightNode,           \* [directional light] TRUE when light.node is set
    hasChangedFlags,     \* [directional light] node.hasChangedFlags
    freedUnallocated,    \* a free() was issued for a handle that is not allocated
    call                 \* the operation that produced this state

sceneVars == <<name, cameras, models, directionalLights, sphereLights, spotLights, mainLight,
               modelId, scenePoolHandle, modelArrayHandle, sphereLightsHandle, spotLightsHandle,
               ScenePool, ModelArrayPool, LightArrayPool, entityScene, modelHandle, lightNode,
               hasChangedFlags, freedUnallocated>>

\* The bookkeeping state as one record, so that an operation is a function on it.
State ==
    [name |-> name, cameras |-> cameras, models |-> models,
     directionalLights |-> directionalLights, sphereLights |-> sphereLights,
     spotLights |-> spotLights, mainLight |-> mainLight, modelId |-> modelId,
     scenePoolHandle |-> scenePoolHandle, modelArrayHandle |-> modelArrayHandle,
     sphereLightsHandle |-> sphereLightsHandle, spotLightsHandle |-> spotLightsHandle,
     ScenePool |-> ScenePool, ModelArrayPool |-> ModelArrayPool,
     LightArrayPool |-> LightArrayPool, entityScene |-> entityScene,
     modelHandle |-> modelHandle, lightNode |-> lightNode,
     hasChangedFlags |-> hasChangedFlags, freedUnallocated |-> freedUnallocated]

\* The state before any constructor has run.
Blank ==
    [name |-> [s \in Scenes |-> ""],
     cameras |-> [s \in Scenes |-> <<>>], models |-> [s \in Scenes |-> <<>>],
     directionalLights |-> [s \in Scenes |-> <<>>], sphereLights |-> [s \in Scenes |-> <<>>],
     spotLights |-> [s \in Scenes |-> <<>>], mainLight |-> [s \in Scenes |-> null],
     modelId |-> [s \in Scenes |-> 0],
     scenePoolHandle |-> [s \in Scenes |-> NULL_HANDLE],
     modelArrayHandle |-> [s \in Scenes |-> NULL_HANDLE],
     sphereLightsHandle |-> [s \in Scenes |-> NULL_HANDLE],
     spotLightsHandle |-> [s \in Scenes |-> NULL_HANDLE],
     ScenePool |-> [h \in SceneSlots |-> FreeSceneRecord],
     ModelArrayPool |-> [h \in ModelArraySlots |-> FreeArray],
     LightArrayPool |-> [h \in LightArraySlots |-> FreeArray],
     entityScene |-> [e \in Entities |-> null],
     modelHandle |-> [m \in Models |-> InitialModelHandle(m)],
     lightNode |-> [l \in DirLights |-> TRUE],
     hasChangedFlags |-> [l \in DirLights |-> 0],
     freedUnallocated |-> FALSE]

----------------------------------------------------------------------------
(* Entity attachment (attachToScene / detachFromScene of Camera, Light,    *)
(* Model) and Model.destroy                                                *)

\* entity.attachToScene(scene): the entity's scene field becomes `s`.
attachToScene(st, e, s) == [st EXCEPT !.entityScene[e] = s]

\* entity.detachFromScene(): the entity's scene field becomes null.
detachFromScene(st, e) == [st EXCEPT !.entityScene[e] = null]

\* detachFromScene() on every element of a list.
detachAll(st, list) ==
    [st EXCEPT !.entityScene = [e \in Entities |-> IF e \in Range(list) THEN null ELSE @[e]]]

\* model.destroy(): releases the model's own pool handle and nulls it.
destroyModels(st, list) ==
    [st EXCEPT !.modelHandle = [m \in Models |-> IF m \in Range(list) THEN NULL_HANDLE ELSE @[m]]]

----------------------------------------------------------------------------
(* RenderScene operations, each a function from the state before the call *)
(* to the state after it                                                   *)

\* _createHandles without its guard: it allocates whether or not the scene holds handles.
createHandles_unguarded(st, s) ==
    LET hModels == AllocHandle(st.ModelArrayPool)
        hScene == AllocHandle(st.ScenePool)
        hSpot == AllocHandle(st.LightArrayPool)
        lights1 == ArrayAlloc(st.LightArrayPool)
        hSphere == AllocHandle(lights1)
        scene1 == SceneSet(SceneAlloc(st.ScenePool), hScene, "MODEL_ARRAY", hModels)
        scene2 == SceneSet(scene1, hScene, "SPOT_LIGHT_ARRAY", hSpot)
        scene3 == SceneSet(scene2, hScene, "SPHERE_LIGHT_ARRAY", hSphere)
    IN [st EXCEPT !.modelArrayHandle[s] = hModels,
                  !.ModelArrayPool = ArrayAlloc(@),
                  !.scenePoolHandle[s] = hScene,
                  !.ScenePool = scene3,
                  !.spotLightsHandle[s] = hSpot,
                  !.sphereLightsHandle[s] = hSphere,
                  !.LightArrayPool = ArrayAlloc(lights1)]

createHandles(st, s) ==
    IF st.modelArrayHandle[s] = NULL_HANDLE
    THEN LET hModels == AllocHandle(st.ModelArrayPool)
             hScene == AllocHandle(st.ScenePool)
             hSpot == AllocHandle(st.LightArrayPool)
             lights1 == ArrayAlloc(st.LightArrayPool)
             hSphere == AllocHandle(lights1)
             scene1 == SceneSet(SceneAlloc(st.ScenePool), hScene, "MODEL_ARRAY", hModels)
             scene2 == SceneSet(scene1, hScene, "SPOT_LIGHT_ARRAY", hSpot)
             scene3 == SceneSet(scene2, hScene, "SPHERE_LIGHT_ARRAY", hSphere)
         IN [st EXCEPT !.modelArrayHandle[s] = hModels,
                       !.ModelArrayPool = ArrayAlloc(@),
                       !.scenePoolHandle[s] = hScene,
                       !.ScenePool = scene3,
                       !.spotLightsHandle[s] = hSpot,
                       !.sphereLightsHandle[s] = hSphere,
                       !.LightArrayPool = ArrayAlloc(lights1)]
    ELSE st

constructor(st, s) == createHandles(st, s)

initialize(st, s, info) == createHandles([st EXCEPT !.name[s] = info], s)

addCamera(st, s, cam) ==
    LET a == attachToScene(st, cam, s)
    IN [a EXCEPT !.cameras[s] = Append(@, cam)]

removeCamera(st, s, camera) ==
    LET i == IndexOf(st.cameras[s], camera)
    IN IF i >= 0
       THEN detachFromScene([st EXCEPT !.cameras[s] = Splice(@, i)], camera)
       ELSE st

removeCameras(st, s) ==
    LET d == detachAll(st, st.cameras[s])
    IN [d EXCEPT !.cameras[s] = <<>>]

setMainLight(st, s, dl) ==
    [st EXCEPT !.mainLight[s] = dl,
               !.ScenePool = SceneSet(@, st.scenePoolHandle[s], "MAIN_LIGHT", LightHandle(dl))]

\* unsetMainLight falling back to the first directional light instead of the last.
unsetMainLight_first(st, s, dl) ==
    IF st.mainLight[s] = dl
    THEN LET dlList == st.directionalLights[s]
         IN IF Len(dlList) # 0
            THEN LET newMain == dlList[1]
                 IN [st EXCEPT !.mainLight[s] = newMain,
                               !.hasChangedFlags[newMain] =
                                   IF st.lightNode[newMain] THEN BitOr(@, ROTATION) ELSE @]
            ELSE [st EXCEPT !.mainLight[s] = null]
    ELSE st

\* unsetMainLight that does not mark the fallback light's node as changed.
unsetMainLight_clean(st, s, dl) ==
    IF st.mainLight[s] = dl
    THEN LET dlList == st.directionalLights[s]
         IN IF Len(dlList) # 0
            THEN [st EXCEPT !.mainLight[s] = dlList[Len(dlList)]]
            ELSE [st EXCEPT !.mainLight[s] = null]
    ELSE st

\* unsetMainLight without the test `this._mainLight === dl`.
unsetMainLight_always(st, s, dl) ==
    LET dlList == st.directionalLights[s]
    IN IF Len(dlList) # 0
       THEN LET newMain == dlList[Len(dlList)]
            IN [st EXCEPT !.mainLight[s] = newMain,
                          !.hasChangedFlags[newMain] =
                              IF st.lightNode[newMain] THEN BitOr(@, ROTATION) ELSE @]
       ELSE [st EXCEPT !.mainLight[s] = null]

unsetMainLight(st, s, dl) ==
    IF st.mainLight[s] = dl
    THEN LET dlList == st.directionalLights[s]
         IN IF Len(dlList) # 0
            THEN LET newMain == dlList[Len(dlList)]
                 IN [st EXCEPT !.mainLight[s] = newMain,
                               !.hasChangedFlags[newMain] =
                                   IF st.lightNode[newMain] THEN BitOr(@, ROTATION) ELSE @]
            ELSE [st EXCEPT !.mainLight[s] = null]
    ELSE st

addDirectionalLight(st, s, dl) ==
    LET a == attachToScene(st, dl, s)
    IN [a EXCEPT !.directionalLights[s] = Append(@, dl)]

removeDirectionalLight(st, s, dl) ==
    LET i == IndexOf(st.directionalLights[s], dl)
    IN IF i >= 0
       THEN LET d == detachFromScene(st, dl)
            IN [d EXCEPT !.directionalLights[s] = Splice(@, i)]
       ELSE st

addSphereLight(st, s, pl) ==
    LET a == attachToScene(st, pl, s)
    IN [a EXCEPT !.sphereLights[s] = Append(@, pl),
                 !.LightArrayPool = ArrayPush(@, st.sphereLightsHandle[s], LightHandle(pl))]

removeSphereLight(st, s, pl) ==
    LET i == IndexOf(st.sphereLights[s], pl)
    IN IF i >= 0
       THEN LET d == detachFromScene(st, pl)
            IN [d EXCEPT !.sphereLights[s] = Splice(@, i),
                         !.LightArrayPool = ArrayErase(@, st.sphereLightsHandle[s], i)]
       ELSE st

addSpotLight(st, s, sl) ==
    LET a == attachToScene(st, sl, s)
    IN [a EXCEPT !.spotLights[s] = Append(@, sl),
                 !.LightArrayPool = ArrayPush(@, st.spotLightsHandle[s], LightHandle(sl))]

removeSpotLight(st, s, sl) ==
    LET i == IndexOf(st.spotLights[s], sl)
    IN IF i >= 0
       THEN LET d == detachFromScene(st, sl)
            IN [d EXCEPT !.spotLights[s] = Splice(@, i),
                         !.LightArrayPool = ArrayErase(@, st.spotLightsHandle[s], i)]
       ELSE st

removeSphereLights(st, s) ==
    LET d == detachAll(st, st.sphereLights[s])
    IN [d EXCEPT !.sphereLights[s] = <<>>,
                 !.LightArrayPool = ArrayClear(@, st.sphereLightsHandle[s])]

removeSpotLights(st, s) ==
    LET d == detachAll(st, st.spotLights[s])
    IN [d EXCEPT !.spotLights[s] = <<>>,
                 !.LightArrayPool = ArrayClear(@, st.spotLightsHandle[s])]

addModel(st, s, m) ==
    LET a == attachToScene(st, m, s)
    IN [a EXCEPT !.models[s] = Append(@, m),
                 !.ModelArrayPool = ArrayPush(@, st.modelArrayHandle[s], st.modelHandle[m])]

removeModel(st, s, model) ==
    LET i == IndexOf(st.models[s], model)
    IN IF i >= 0
       THEN LET d == detachFromScene(st, model)
            IN [d EXCEPT !.models[s] = Splice(@, i),
                         !.ModelArrayPool = ArrayErase(@, st.modelArrayHandle[s], i)]
       ELSE st

removeModels(st, s) ==
    LET d == destroyModels(detachAll(st, st.models[s]), st.models[s])
    IN [d EXCEPT !.models[s] = <<>>,
                 !.ModelArrayPool = ArrayClear(@, st.modelArrayHandle[s])]

\* The release of the model array without the null-handle guard.
freeModelArray_unguarded(st, s) ==
    LET h == st.modelArrayHandle[s]
    IN [st EXCEPT !.freedUnallocated = @ \/ ~Live(st.ModelArrayPool, h),
                  !.ModelArrayPool = PoolFree(@, h),
                  !.modelArrayHandle[s] = NULL_HANDLE]

\* if (this._modelArrayHandle) { ModelArrayPool.free(...); this._modelArrayHandle = NULL_HANDLE; }
freeModelArray(st, s) ==
    LET h == st.modelArrayHandle[s]
    IN IF h # NULL_HANDLE
       THEN [st EXCEPT !.freedUnallocated = @ \/ ~Live(st.ModelArrayPool, h),
                       !.ModelArrayPool = PoolFree(@, h),
                       !.modelArrayHandle[s] = NULL_HANDLE]
       ELSE st

freeScene(st, s) ==
    LET h == st.scenePoolHandle[s]
    IN IF h # NULL_HANDLE
       THEN [st EXCEPT !.freedUnallocated = @ \/ ~Live(st.ScenePool, h),
                       !.ScenePool = PoolFree(@, h),
                       !.scenePoolHandle[s] = NULL_HANDLE]
       ELSE st

freeSphereLights(st, s) ==
    LET h == st.sphereLightsHandle[s]
    IN IF h # NULL_HANDLE
       THEN [st EXCEPT !.freedUnallocated = @ \/ ~Live(st.LightArrayPool, h),
                       !.LightArrayPool = PoolFree(@, h),
                       !.sphereLightsHandle[s] = NULL_HANDLE]
       ELSE st

freeSpotLights(st, s) ==
    LET h == st.spotLightsHandle[s]
    IN IF h # NULL_HANDLE
       THEN [st EXCEPT !.freedUnallocated = @ \/ ~Live(st.LightArrayPool, h),
                       !.LightArrayPool = PoolFree(@, h),
                       !.spotLightsHandle[s] = NULL_HANDLE]
       ELSE st

destroy(st, s) ==
    LET removed == removeModels(removeSpotLights(removeSphereLights(removeCameras(st, s), s), s), s)
    IN freeSpotLights(freeSphereLights(freeScene(freeModelArray(removed, s), s), s), s)

\* generateModelId that hands out the counter without advancing it.
generateModelId_stuck(st, s) == st

generateModelId(st, s) == [st EXCEPT !.modelId[s] = @ + 1]

----------------------------------------------------------------------------
(* Raycasting: numbers, layers and the geometry the queries are run on     *)

\* The default max distance of every raycast entry point.
Infinity == 1000000

\* The number JavaScript arithmetic yields on an undefined operand.
NaN == -1000000

\* The value of an array read past the end.
undefined == -1

IsNaN(x) == x = NaN

\* x <= 0, x >= y, x < y and Math.min(x, y) with JavaScript's NaN rules.
LE0(x) == ~IsNaN(x) /\ x <= 0
GE(x, y) == ~IsNaN(x) /\ ~IsNaN(y) /\ x >= y
LT(x, y) == ~IsNaN(x) /\ ~IsNaN(y) /\ x < y
MathMin(x, y) == IF IsNaN(x) \/ IsNaN(y) THEN NaN ELSE IF x <= y THEN x ELSE y

\* A distance in world space (the d of a query's loop, the distance of a result record)
\* is counted in halves, so that a product with a world scale of 0.5 is exact: 5 stands
\* for 2.5. The other numbers are whole. Halves(x) is the whole number x in halves.
Halves(x) ==
    IF IsNaN(x) THEN NaN
    ELSE IF x >= Infinity THEN Infinity
    ELSE 2 * x

\* x * (halves / 2), in halves: a world scale is counted in halves, so 1 is 0.5, 2 is 1,
\* 4 is 2, and Scaled(5, 1) = 5 stands for 5 * 0.5 = 2.5.
Scaled(x, halves) ==
    IF IsNaN(x) THEN NaN
    ELSE IF x >= Infinity THEN Infinity
    ELSE x * halves

\* The bits of Layers.Enum the queries read; a layer or a mask is a set of bits,
\* a & b their intersection, ~b the complement, and non-zero is non-empty.
LayerBits == {"IGNORE_RAYCAST", "UI_2D", "DEFAULT"}

Rays == {"r1", "r2"}
Boxes == {"boxA", "boxB", "boxC"}

\* intersect.rayAABB(ray, box): the distance to the box, <= 0 when the ray misses it
\* (negative when the ray starts inside it).
rayAABB(ray, box) ==
    CASE ray = "r1" /\ box = "boxA" -> 2
      [] ray = "r1" /\ box = "boxB" -> 0
      [] ray = "r1" /\ box = "boxC" -> -1
      [] ray = "r2" /\ box = "boxA" -> 0
      [] ray = "r2" /\ box = "boxB" -> 6
      [] ray = "r2" /\ box = "boxC" -> 2

\* The triangles of the vertex buffer (vertices 0..3): for a ray and a set of three
\* vertices, the order in which the triangle faces the ray and the distance at which
\* the ray crosses it in model space (0: it does not).
TriangleOf(ray, vs) ==
    CASE vs = {0, 1, 2} -> [ccw |-> <<0, 1, 2>>, dist |-> IF ray = "r1" THEN 4 ELSE 0]
      [] vs = {1, 2, 3} -> [ccw |-> <<2, 1, 3>>, dist |-> IF ray = "r1" THEN 8 ELSE 0]
      [] vs = {0, 2, 3} -> [ccw |-> <<0, 2, 3>>, dist |-> IF ray = "r1" THEN 6 ELSE 4]
      [] OTHER -> [ccw |-> <<0, 1, 3>>, dist |-> 0]

VertexCount == 4

\* intersect.rayTriangle(modelRay, tri, doubleSided) on the triangle of vertices
\* (a, b, c): 0 for a miss, a degenerate triangle or a back face of a single-sided
\* mesh; NaN when a vertex was read from an undefined index.
rayTriangle(ray, a, b, c, sides) ==
    LET defined(v) == v >= 0 /\ v < VertexCount
    IN IF ~(defined(a) /\ defined(b) /\ defined(c)) THEN NaN
       ELSE IF Cardinality({a, b, c}) < 3 \/ ray \notin Rays THEN 0
       ELSE LET t == TriangleOf(ray, {a, b, c})
                front == <<a, b, c>> \in {t.ccw, <<t.ccw[2], t.ccw[3], t.ccw[1]>>,
                                         <<t.ccw[3], t.ccw[1], t.ccw[2]>>}
            IN IF front \/ sides THEN t.dist ELSE 0

\* subMesh: null ("none"), or its geometricInfo.indices, primitiveMode and doubleSided.
SubMesh(id) ==
    CASE id = "list" -> [indices |-> <<0, 1, 2, 2, 1, 3>>, primitiveMode |-> "TRIANGLE_LIST", doubleSided |-> FALSE]
      [] id = "back" -> [indices |-> <<0, 2, 1>>, primitiveMode |-> "TRIANGLE_LIST", doubleSided |-> FALSE]
      [] id = "both" -> [indices |-> <<0, 2, 1>>, primitiveMode |-> "TRIANGLE_LIST", doubleSided |-> TRUE]
      [] id = "strip" -> [indices |-> <<0, 1, 2, 3>>, primitiveMode |-> "TRIANGLE_STRIP", doubleSided |-> FALSE]
      [] id = "fan" -> [indices |-> <<0, 2, 3, 1>>, primitiveMode |-> "TRIANGLE_FAN", doubleSided |-> FALSE]
      [] id = "ragged" -> [indices |-> <<0, 1, 2, 3>>, primitiveMode |-> "TRIANGLE_LIST", doubleSided |-> FALSE]
      [] id = "lines" -> [indices |-> <<0, 1>>, primitiveMode |-> "LINE_LIST", doubleSided |-> FALSE]
      [] id = "far" -> [indices |-> <<2, 1, 3>>, primitiveMode |-> "TRIANGLE_LIST", doubleSided |-> FALSE]
      [] id = "tsil" -> [indices |-> <<2, 1, 3, 0, 1, 2>>, primitiveMode |-> "TRIANGLE_LIST", doubleSided |-> FALSE]

\* A model that passes every filter for the mask DEFAULT and is hit by r1.
BaseModel ==
    [transform |-> TRUE, enabled |-> TRUE, layer |-> {"DEFAULT"}, worldBounds |-> "boxA",
     type |-> "DEFAULT", subModels |-> <<"list">>, worldScale |-> 2]

\* The model configurations a scene is populated with: BaseModel and the
\* configurations that differ from it in one attribute.
ModelCfgs ==
    {BaseModel}
    \cup {[BaseModel EXCEPT !.transform = FALSE], [BaseModel EXCEPT !.enabled = FALSE],
          [BaseModel EXCEPT !.type = "OTHER"]}
    \cup {[BaseModel EXCEPT !.layer = l] :
              l \in {{"UI_2D"}, {"IGNORE_RAYCAST"}, {"IGNORE_RAYCAST", "DEFAULT"}}}
    \cup {[BaseModel EXCEPT !.worldBounds = b] : b \in {null, "boxB", "boxC"}}
    \cup {[BaseModel EXCEPT !.subModels = sm] :
              sm \in {<<>>, <<"none", "strip">>, <<"back", "fan">>, <<"both">>,
                      <<"ragged">>, <<"lines">>}}
    \cup {[BaseModel EXCEPT !.worldScale = k] : k \in {1, 4}}
    \cup {[BaseModel EXCEPT !.worldScale = k, !.subModels = sm] :
              k \in {1, 4}, sm \in {<<"back">>, <<"far">>}}
    \cup {[BaseModel EXCEPT !.subModels = sm] :
              sm \in {<<"tsil">>, <<"far", "list">>, <<"list", "far">>, <<"far">>}}

\* The UI tree of the director's scene: one canvas with two children, one grandchild.
UINodes == {"canvas", "uiA", "uiB", "uiC"}

Children(node) ==
    CASE node = "canvas" -> <<"uiA", "uiB">>
      [] node = "uiA" -> <<"uiC">>
      [] OTHER -> <<>>

\* getScene().getComponentsInChildren(Canvas): the nodes of the canvas components.
CanvasNodes == <<"canvas">>

\* node.active, node._uiProps.uiTransformComp (set or null), node.layer and the box
\* getComputeAABB fills in.
BaseUI == [active |-> TRUE, uiTransform |-> TRUE, layer |-> {"UI_2D"}, aabb |-> "boxA"]

UICfgs ==
    {BaseUI, [BaseUI EXCEPT !.active = FALSE], [BaseUI EXCEPT !.uiTransform = FALSE],
     [BaseUI EXCEPT !.layer = {"DEFAULT"}], [BaseUI EXCEPT !.layer = {"IGNORE_RAYCAST", "UI_2D"}],
     [BaseUI EXCEPT !.aabb = "boxB"], [BaseUI EXCEPT !.aabb = "boxC"]}

----------------------------------------------------------------------------
(* RecyclePool (memop) and the module-level raycast state                  *)

\* The initial capacity both result pools are built with.
PoolSize == 8

\* The record the pools' factory builds: { node: null, distance: Infinity }.
FreshRecord == [node |-> null, distance |-> Infinity]

NewPool == [data |-> [i \in 1..PoolSize |-> FreshRecord], length |-> 0]

\* reset(): logically empty, the records kept.
PoolReset(p) == [p EXCEPT !.length = 0]

\* add() that replaces the exhausted storage by a new one instead of extending it.
PoolAdd_discards(p) ==
    LET grown == IF p.length >= Len(p.data)
                 THEN [i \in 1..(2 * Len(p.data)) |-> FreshRecord]
                 ELSE p.data
    IN [data |-> grown, length |-> p.length + 1]

\* add(): the next slot, after doubling the storage when it is exhausted.
PoolAdd(p) ==
    LET grown == IF p.length >= Len(p.data)
                 THEN p.data \o [i \in 1..Len(p.data) |-> FreshRecord]
                 ELSE p.data
    IN [data |-> grown, length |-> p.length + 1]

\* An element of a result array that was never assigned (a hole of the JavaScript
\* array, read as undefined).
Hole == [pool |-> "none", slot |-> 0]

Holes(n) == [i \in 1..n |-> Hole]

\* array[index] = value, on an array held as a sequence (index 0-based); an index past
\* the length leaves holes before it.
ArraySet(array, index, value) ==
    IF index < Len(array) THEN [array EXCEPT ![index + 1] = value]
    ELSE array \o Holes(index - Len(array)) \o <<value>>

\* array.length = n: it cuts the array, or extends it by holes.
Truncate(array, n) ==
    IF n <= Len(array) THEN SubSeq(array, 1, n) ELSE array \o Holes(n - Len(array))

VARIABLES
    modelAttr,           \* [model] the fields of the model the raycasts read
    uiAttr,              \* [UI node] the fields of the node raycastAllCanvas reads
    pool,                \* the RecyclePool of model results
    poolUI,              \* the RecyclePool of canvas results
    resultModels,        \* slots of `pool`
    resultCanvas,        \* slots of `poolUI`
    resultAll,           \* slots of either pool
    resultSingleModel,   \* slots of `pool`
    narrowDis,           \* the narrow phase's best distance so far
    modelRay,            \* the scratch ray in model space
    query,               \* the arguments and the outcome of the latest raycast, and
                         \* whether it repeated the call before it
    updated,             \* the calls the latest update(stamp) made on lights and
                         \* models, in the order it made them
    tested               \* the index buffer and topology of the latest narrowphase on
                         \* its own, the index positions of the triangles it read, in
                         \* order, and the set of index positions it read

rayVars == <<modelAttr, uiAttr, pool, poolUI, resultModels, resultCanvas, resultAll,
             resultSingleModel, narrowDis, modelRay>>

\* The raycast state as one record.
RayState ==
    [pool |-> pool, poolUI |-> poolUI, resultModels |-> resultModels,
     resultCanvas |-> resultCanvas, resultAll |-> resultAll,
     resultSingleModel |-> resultSingleModel, narrowDis |-> narrowDis, modelRay |-> modelRay,
     hit |-> FALSE, threw |-> FALSE]

\* The module-level state when the module has been loaded.
Loaded ==
    [pool |-> NewPool, poolUI |-> NewPool, resultModels |-> <<>>, resultCanvas |-> <<>>,
     resultAll |-> <<>>, resultSingleModel |-> <<>>, narrowDis |-> Infinity,
     modelRay |-> "none", hit |-> FALSE, threw |-> FALSE]

\* A reference to a pool's record, as the result arrays hold it.
Slot(p, i) == [pool |-> p, slot |-> i]

----------------------------------------------------------------------------
(* The narrow phase                                                        *)

\* ib[j], undefined past the end.
At(ib, j) == IF j >= 0 /\ j < Len(ib) THEN ib[j + 1] ELSE undefined

\* if (dist <= 0 || dist >= narrowDis) { continue; } narrowDis = dist;
Nearer(dist, best) == IF LE0(dist) \/ GE(dist, best) THEN best ELSE dist

\* The index positions the triangle of a list at j is read from: ib[j], ib[j + 1],
\* ib[j + 2].
listWindow(j) == <<j, j + 1, j + 2>>

RECURSIVE listLoop(_, _, _, _, _)
listLoop(ray, ib, sides, j, best) ==
    IF j < Len(ib)
    THEN LET read(w) == rayTriangle(ray, At(ib, w[1]), At(ib, w[2]), At(ib, w[3]), sides)
         IN listLoop(ray, ib, sides, j + 3, Nearer(read(listWindow(j)), best))
    ELSE best

\* The index positions the list loop reads its triangles from, from index j on.
RECURSIVE listTested(_, _)
listTested(ib, j) ==
    IF j < Len(ib) THEN <<listWindow(j)>> \o listTested(ib, j + 3) ELSE <<>>

\* The index positions of a strip triangle without the winding correction.
stripWindow_unflipped(j, rev) == <<j, j + 1, j + 2>>

\* The index positions triangle j of a strip is read from: ib[j - rev], ib[j + rev + 1],
\* ib[j + 2].
stripWindow(j, rev) == <<j - rev, j + rev + 1, j + 2>>

\* rev is 0 or -1 (~0), flipped after every triangle.
RECURSIVE stripLoop(_, _, _, _, _, _)
stripLoop(ray, ib, sides, j, rev, best) ==
    IF j < Len(ib) - 2
    THEN LET read(w) == rayTriangle(ray, At(ib, w[1]), At(ib, w[2]), At(ib, w[3]), sides)
         IN stripLoop(ray, ib, sides, j + 1, -1 - rev, Nearer(read(stripWindow(j, rev)), best))
    ELSE best

\* The index positions the strip loop reads its triangles from, from triangle j on.
RECURSIVE stripTested(_, _, _)
stripTested(ib, j, rev) ==
    IF j < Len(ib) - 2
    THEN <<stripWindow(j, rev)>> \o stripTested(ib, j + 1, -1 - rev)
    ELSE <<>>

\* The index positions of a fan triangle that slide along without a shared apex.
fanWindow_sliding(j) == <<j - 1, j, j + 1>>

\* The index positions triangle j of a fan is read from: ib[0] (read once, before the
\* loop), ib[j], ib[j + 1].
fanWindow(j) == <<0, j, j + 1>>

RECURSIVE fanLoop(_, _, _, _, _)
fanLoop(ray, ib, sides, j, best) ==
    IF j < Len(ib) - 1
    THEN LET read(w) == rayTriangle(ray, At(ib, w[1]), At(ib, w[2]), At(ib, w[3]), sides)
         IN fanLoop(ray, ib, sides, j + 1, Nearer(read(fanWindow(j)), best))
    ELSE best

\* The index positions the fan loop reads its triangles from, from triangle j on.
RECURSIVE fanTested(_, _)
fanTested(ib, j) ==
    IF j < Len(ib) - 1 THEN <<fanWindow(j)>> \o fanTested(ib, j + 1) ELSE <<>>

\* narrowphase(vb, ib, pm, sides, distance): the value it leaves in narrowDis.
narrowphase(ray, ib, pm, sides, distance) ==
    CASE pm = "TRIANGLE_LIST" -> listLoop(ray, ib, sides, 0, distance)
      [] pm = "TRIANGLE_STRIP" -> stripLoop(ray, ib, sides, 0, 0, distance)
      [] pm = "TRIANGLE_FAN" -> fanLoop(ray, ib, sides, 1, distance)
      [] OTHER -> distance

----------------------------------------------------------------------------
(* The raycast entry points, each a function from the module-level state   *)
(* before the call to the state after it; `hit` is the value returned      *)

\* The sub-model loop of a DEFAULT model: narrowphase per sub-mesh that has geometry,
\* d = Math.min(d, narrowDis * |modelRay.d * worldScale|).
RECURSIVE subModelsLoop(_, _, _, _, _)
subModelsLoop(acc, attr, distance, i, ray) ==
    IF i <= Len(attr.subModels)
    THEN IF attr.subModels[i] = "none"
         THEN subModelsLoop(acc, attr, distance, i + 1, ray)
         ELSE LET fold(best) ==
                      subModelsLoop([narrowDis |-> best,
                                     d |-> MathMin(acc.d, Scaled(best, attr.worldScale))],
                                    attr, distance, i + 1, ray)
                  step(sub) ==
                      fold(narrowphase(ray, sub.indices, sub.primitiveMode, sub.doubleSided,
                                       distance))
              IN step(SubMesh(attr.subModels[i]))
    ELSE acc

\* The filter of a model: transform, enabled, layer against the mask without
\* IGNORE_RAYCAST, world bounds.
filtered(attr, mask) ==
    \/ ~attr.transform
    \/ ~attr.enabled
    \/ attr.layer \cap (mask \ {"IGNORE_RAYCAST"}) = {}
    \/ attr.worldBounds = null

\* The broad phase: if (d <= 0 || d >= distance) the model is dropped.
broadphaseRejects(d, distance) == LE0(d) \/ GE(d, distance)

\* The test of one model, shared by raycastAllModels and raycastSingleModel: whether
\* the model got past the filter and the broad phase, the distance d it ends with, and
\* the scratch state it leaves.
testModel(rs, m, worldRay, mask, distance) ==
    LET narrowed(out) ==
            [rs |-> [rs EXCEPT !.modelRay = worldRay, !.narrowDis = out.narrowDis],
             tested |-> TRUE, d |-> out.d]
        decide(attr, d0) ==
            IF filtered(attr, mask) THEN [rs |-> rs, tested |-> FALSE, d |-> Infinity]
            ELSE IF broadphaseRejects(d0, distance)
                 THEN [rs |-> rs, tested |-> FALSE, d |-> Halves(d0)]
            ELSE IF attr.type = "DEFAULT"
                 THEN narrowed(subModelsLoop([narrowDis |-> rs.narrowDis, d |-> Infinity],
                                             attr, distance, 1, worldRay))
                 ELSE [rs |-> rs, tested |-> TRUE, d |-> Halves(d0)]
    IN decide(modelAttr[m], rayAABB(worldRay, modelAttr[m].worldBounds))

\* const r = pool.add(); r.node = m.node; r.distance = d; d is counted in halves.
record(p, node, d) ==
    LET fill(added) == [added EXCEPT !.data[added.length] = [node |-> node, distance |-> d]]
    IN fill(PoolAdd(p))

RECURSIVE modelsLoop(_, _, _, _, _, _)
modelsLoop(rs, list, k, worldRay, mask, distance) ==
    IF k <= Len(list)
    THEN LET put(t, p) ==
                 [t.rs EXCEPT !.pool = p,
                              !.resultModels = ArraySet(@, p.length - 1, Slot("pool", p.length))]
             after(t) ==
                 IF t.tested /\ LT(t.d, Halves(distance))
                 THEN put(t, record(t.rs.pool, list[k], t.d))
                 ELSE t.rs
         IN modelsLoop(after(testModel(rs, list[k], worldRay, mask, distance)),
                       list, k + 1, worldRay, mask, distance)
    ELSE rs

\* raycastAllModels without `pool.reset()`: the records are added behind those of the
\* query before.
raycastAllModels_noReset(rs, list, worldRay, mask, distance) ==
    LET cut(done, results) ==
            [done EXCEPT !.resultModels = results, !.hit = Len(results) > 0, !.threw = FALSE]
        finish(done) == cut(done, Truncate(done.resultModels, done.pool.length))
    IN finish(modelsLoop(rs, list, 1, worldRay, mask, distance))

raycastAllModels(rs, list, worldRay, mask, distance) ==
    LET cut(done, results) ==
            [done EXCEPT !.resultModels = results, !.hit = Len(results) > 0, !.threw = FALSE]
        finish(done) == cut(done, Truncate(done.resultModels, done.pool.length))
    IN finish(modelsLoop([rs EXCEPT !.pool = PoolReset(@)], list, 1, worldRay, mask, distance))

\* The records a result array of the state rs refers to; a hole reads as undefined.
RecordsOf(rs, array) ==
    [i \in 1..Len(array) |->
        CASE array[i].pool = "pool" -> rs.pool.data[array[i].slot]
          [] array[i].pool = "poolUI" -> rs.poolUI.data[array[i].slot]
          [] OTHER -> [node |-> "undefined", distance |-> undefined]]

raycastSingleModel(rs, model, worldRay, mask, distance) ==
    LET cut(next, results) ==
            [next EXCEPT !.resultSingleModel = results, !.hit = Len(results) > 0]
        finish(next) == cut(next, Truncate(next.resultSingleModel, next.pool.length))
        put(t, p) ==
            [t.rs EXCEPT !.pool = p,
                         !.resultSingleModel = ArraySet(@, p.length - 1, Slot("pool", p.length))]
        after(t) ==
            IF ~t.tested
            THEN t.rs
            ELSE finish(IF LT(t.d, Halves(distance))
                        THEN put(t, record(t.rs.pool, model, t.d)) ELSE t.rs)
        run(reset) ==
            IF model = null
            THEN [reset EXCEPT !.threw = TRUE]
            ELSE after(testModel(reset, model, worldRay, mask, distance))
    IN run([rs EXCEPT !.pool = PoolReset(@), !.hit = FALSE, !.threw = FALSE])

\* _raycastUI2DNode: the pool after the test, and whether a record was returned.
raycastUI2DNode(rs, ui2dNode, worldRay, mask, distance) ==
    LET decide(attr, d) ==
            IF ~attr.uiTransform \/ "IGNORE_RAYCAST" \in attr.layer \/ attr.layer \cap mask = {}
            THEN [rs |-> rs, result |-> FALSE]
            ELSE IF LE0(d) THEN [rs |-> rs, result |-> FALSE]
            ELSE IF LT(d, distance)
                 THEN [rs |-> [rs EXCEPT !.poolUI = record(@, ui2dNode, Halves(d))],
                       result |-> TRUE]
                 ELSE [rs |-> rs, result |-> FALSE]
    IN decide(uiAttr[ui2dNode], rayAABB(worldRay, uiAttr[ui2dNode].aabb))

\* _raycastUI2DNodeRecursiveChildren(worldRay, parent, mask, distance), and its loop
\* over parent.children from child k on.
RECURSIVE raycastUI2DNodeRecursiveChildren(_, _, _, _, _)
RECURSIVE childrenLoop(_, _, _, _, _, _)
raycastUI2DNodeRecursiveChildren(rs, parent, worldRay, mask, distance) ==
    LET own(t) ==
            IF t.result
            THEN [t.rs EXCEPT !.resultCanvas =
                                  ArraySet(@, t.rs.poolUI.length - 1,
                                           Slot("poolUI", t.rs.poolUI.length))]
            ELSE t.rs
    IN childrenLoop(own(raycastUI2DNode(rs, parent, worldRay, mask, distance)),
                    Children(parent), 1, worldRay, mask, distance)

\* The loop over the children without the test of node.active.
RECURSIVE childrenLoop_visitsInactive(_, _, _, _, _, _)
childrenLoop_visitsInactive(rs, nodes, k, worldRay, mask, distance) ==
    IF k <= Len(nodes)
    THEN childrenLoop_visitsInactive(
             raycastUI2DNodeRecursiveChildren(rs, nodes[k], worldRay, mask, distance),
             nodes, k + 1, worldRay, mask, distance)
    ELSE rs

childrenLoop(rs, nodes, k, worldRay, mask, distance) ==
    IF k <= Len(nodes)
    THEN childrenLoop(IF uiAttr[nodes[k]].active
                      THEN raycastUI2DNodeRecursiveChildren(rs, nodes[k], worldRay, mask, distance)
                      ELSE rs,
                      nodes, k + 1, worldRay, mask, distance)
    ELSE rs

\* raycastAllCanvas that also empties the model results.
raycastAllCanvas_clearsModels(rs, worldRay, mask, distance) ==
    LET cut(done, results) ==
            [done EXCEPT !.resultCanvas = results, !.resultModels = <<>>,
                         !.hit = Len(results) > 0, !.threw = FALSE]
        finish(done) == cut(done, Truncate(done.resultCanvas, done.poolUI.length))
    IN finish(childrenLoop([rs EXCEPT !.poolUI = PoolReset(@)], CanvasNodes, 1,
                           worldRay, mask, distance))

raycastAllCanvas(rs, worldRay, mask, distance) ==
    LET cut(done, results) ==
            [done EXCEPT !.resultCanvas = results, !.hit = Len(results) > 0, !.threw = FALSE]
        finish(done) == cut(done, Truncate(done.resultCanvas, done.poolUI.length))
    IN finish(childrenLoop([rs EXCEPT !.poolUI = PoolReset(@)], CanvasNodes, 1,
                           worldRay, mask, distance))

\* raycastAll without `resultAll.length = 0`: the hits are pushed behind the old ones.
raycastAll_keepsOld(rs, list, worldRay, mask, distance) ==
    LET join(r3d, rui2d) ==
            [rui2d EXCEPT !.resultAll = IF r3d.hit \/ rui2d.hit
                                        THEN @ \o rui2d.resultModels \o rui2d.resultCanvas
                                        ELSE @,
                          !.hit = r3d.hit \/ rui2d.hit]
        canvas(r3d) == join(r3d, raycastAllCanvas(r3d, worldRay, mask, distance))
    IN canvas(raycastAllModels(rs, list, worldRay, mask, distance))

raycastAll(rs, list, worldRay, mask, distance) ==
    LET join(r3d, rui2d) ==
            [rui2d EXCEPT !.resultAll = IF r3d.hit \/ rui2d.hit
                                        THEN rui2d.resultModels \o rui2d.resultCanvas
                                        ELSE <<>>,
                          !.hit = r3d.hit \/ rui2d.hit]
        canvas(r3d) == join(r3d, raycastAllCanvas(r3d, worldRay, mask, distance))
    IN canvas(raycastAllModels(rs, list, worldRay, mask, distance))

----------------------------------------------------------------------------
(* update(stamp): the calls it makes on the scene's lights and models      *)

\* One call made on an entity; light.update() takes no stamp.
Invoked(target, method, stamp) == [target |-> target, method |-> method, stamp |-> stamp]

\* for (i < lights.length) lights[i].update()
lightsLoop(lights) == [i \in 1..Len(lights) |-> Invoked(lights[i], "update", "none")]

\* The loop over the models from entry i on, without the test of model.enabled.
RECURSIVE updateModelsLoop_ignoresEnabled(_, _, _, _)
updateModelsLoop_ignoresEnabled(list, attr, i, stamp) ==
    IF i <= Len(list)
    THEN <<Invoked(list[i], "updateTransform", stamp), Invoked(list[i], "updateUBOs", stamp)>>
             \o updateModelsLoop_ignoresEnabled(list, attr, i + 1, stamp)
    ELSE <<>>

\* The loop over the models from entry i on: an enabled model gets updateTransform(stamp)
\* and then updateUBOs(stamp).
RECURSIVE updateModelsLoop(_, _, _, _)
updateModelsLoop(list, attr, i, stamp) ==
    IF i <= Len(list)
    THEN (IF attr[list[i]].enabled
          THEN <<Invoked(list[i], "updateTransform", stamp),
                 Invoked(list[i], "updateUBOs", stamp)>>
          ELSE <<>>)
             \o updateModelsLoop(list, attr, i + 1, stamp)
    ELSE <<>>

\* update(stamp) on scene s of state st, the models having the attributes attr: the
\* calls it makes, in order.
update(st, attr, s, stamp) ==
    (IF st.mainLight[s] # null THEN <<Invoked(st.mainLight[s], "update", "none")>> ELSE <<>>)
        \o lightsLoop(st.sphereLights[s])
        \o lightsLoop(st.spotLights[s])
        \o updateModelsLoop(st.models[s], attr, 1, stamp)

----------------------------------------------------------------------------
(* SpriteFrame: a rectangle of a texture, filled in when the texture loads *)

VARIABLES
    frame,               \* the fields of one SpriteFrame, and the 'load' events its
                         \* latest operation made it emit
    textures,            \* [texture] loaded, width, height, and whether the frame's
                         \* callback waits for the texture's 'load' event
    renderType,          \* cc.game.renderType
    dropped,             \* the textures clearTexture() took from the frame while they
                         \* were loading, and that the frame was not given again
    setters,             \* the number of calls of the frame's setters and of
                         \* _deserialize so far
    clips                \* [video clip asset] _video, _duration, loaded

assetVars == <<frame, textures, renderType, dropped, setters, clips>>

\* null where a rect, a size, an offset or a native clip is expected.
NoValue == [null |-> TRUE]

Textures == {"T1", "T2"}

\* textureOrTextureFile as a string: the name of an image file.
Files == {"f1"}

RenderTypes == {"RENDER_TYPE_CANVAS", "RENDER_TYPE_WEBGL"}

\* textureUtil.loadImage(url): the texture the cache holds for the url.
loadImage(url) == IF url = "f1" THEN "T1" ELSE "T2"

\* The size a texture has once its image is there; both are 0 before.
ImageSize(t) == IF t = "T1" THEN [width |-> 4, height |-> 4] ELSE [width |-> 2, height |-> 2]

UnloadedTexture == [loaded |-> FALSE, width |-> 0, height |-> 0, listening |-> FALSE]

LoadedTexture(t) ==
    [loaded |-> TRUE, width |-> ImageSize(t).width, height |-> ImageSize(t).height,
     listening |-> FALSE]

\* The frame and the textures as one record, so that a method is a function on it.
AssetState == [frame |-> frame, textures |-> textures, renderType |-> renderType]

\* ctor() without arguments, in a build without the editor (CC_EDITOR is false). Of the
\* latest operation, `errors` holds the ids _checkRect logged, `emits` what a listener
\* of the frame's 'load' event saw at each event, and `threw` whether it ended in a
\* TypeError.
NewFrame ==
    [name |-> "", rect |-> NoValue, offset |-> NoValue, originalSize |-> NoValue,
     rotated |-> FALSE, vertices |-> NoValue, capInsets |-> <<0, 0, 0, 0>>, uv |-> <<>>,
     uvSliced |-> <<>>, texture |-> null, textureFilename |-> "", errors |-> {},
     emits |-> <<>>, threw |-> FALSE]

\* cc.rect(x, y, w, h), cc.size(w, h), cc.v2(x, y).
Rect(x, y, w, h) == [x |-> x, y |-> y, width |-> w, height |-> h]
Size(w, h) == [width |-> w, height |-> h]
V2(x, y) == [x |-> x, y |-> y]

\* n / d, kept as the two numbers.
Frac(n, d) == [n |-> n, d |-> d]

\* `tex === 0 ? 0 : n / tex`.
FracOrZero(n, tex) == IF tex = 0 THEN Frac(0, 1) ELSE Frac(n, tex)

textureLoaded(w) == w.frame.texture # null /\ w.textures[w.frame.texture].loaded

setRotated(f, bRotated) == [f EXCEPT !.rotated = bRotated]

setRect(f, rect) == [f EXCEPT !.rect = rect]

\* setOriginalSize(size): a copy of size, or size written into the size there is.
setOriginalSize(f, size) ==
    IF f.originalSize = NoValue
    THEN [f EXCEPT !.originalSize = Size(size.width, size.height)]
    ELSE [f EXCEPT !.originalSize.width = size.width, !.originalSize.height = size.height]

setOffset(f, offsets) == [f EXCEPT !.offset = V2(offsets.x, offsets.y)]

\* _checkRect(texture): the ids of the errors it logs.
checkRect(f, tex) ==
    LET maxX == f.rect.x + (IF f.rotated THEN f.rect.height ELSE f.rect.width)
        maxY == f.rect.y + (IF f.rotated THEN f.rect.width ELSE f.rect.height)
    IN (IF maxX > tex.width THEN {3300} ELSE {}) \cup (IF maxY > tex.height THEN {3400} ELSE {})

\* _calculateSlicedUV(): the sixteen corners of the nine slices.
calculateSlicedUV(f, tex) ==
    LET rect == f.rect
        leftWidth == f.capInsets[1]
        topHeight == f.capInsets[2]
        rightWidth == f.capInsets[3]
        bottomHeight == f.capInsets[4]
        centerWidth == rect.width - leftWidth - rightWidth
        centerHeight == rect.height - topHeight - bottomHeight
        u == IF f.rotated
             THEN <<rect.x, rect.x + bottomHeight, rect.x + bottomHeight + centerHeight,
                    rect.x + rect.height>>
             ELSE <<rect.x, rect.x + leftWidth, rect.x + leftWidth + centerWidth,
                    rect.x + rect.width>>
        v == IF f.rotated
             THEN <<rect.y + rect.width, rect.y + leftWidth + centerWidth,
                    rect.y + leftWidth, rect.y>>
             ELSE <<rect.y + rect.height, rect.y + topHeight + centerHeight,
                    rect.y + topHeight, rect.y>>
        corner(row, col) ==
            IF f.rotated
            THEN [u |-> Frac(u[row], tex.width), v |-> Frac(v[5 - col], tex.height)]
            ELSE [u |-> Frac(u[col], tex.width), v |-> Frac(v[row], tex.height)]
    IN [f EXCEPT !.uvSliced = [k \in 1..16 |-> corner(((k - 1) \div 4) + 1, ((k - 1) % 4) + 1)]]

\* _calculateUV(): the four corners of the rect in texture coordinates, then the slices.
calculateUV(f, tex) ==
    LET rect == f.rect
        l == FracOrZero(rect.x, tex.width)
        r == FracOrZero(rect.x + (IF f.rotated THEN rect.height ELSE rect.width), tex.width)
        b == FracOrZero(rect.y + (IF f.rotated THEN rect.width ELSE rect.height), tex.height)
        t == FracOrZero(rect.y, tex.height)
        uv == IF f.rotated THEN <<l, t, l, b, r, t, r, b>> ELSE <<l, b, r, b, l, t, r, t>>
        normalized(vertices) ==
            [vertices EXCEPT !.nu = [i \in 1..Len(vertices.u) |-> Frac(vertices.u[i], tex.width)],
                             !.nv = [i \in 1..Len(vertices.u) |-> Frac(vertices.v[i], tex.height)]]
        f1 == [f EXCEPT !.uv = uv]
        f2 == IF f1.vertices # NoValue THEN [f1 EXCEPT !.vertices = normalized(@)] ELSE f1
    IN calculateSlicedUV(f2, tex)

\* The setters insetLeft, insetTop, insetRight and insetBottom (inset 1 to 4): the cap
\* inset is stored, and with a texture the slices are computed anew, which throws a
\* TypeError at `rect.width` when the frame has no rect.
setInset(w, inset, value) ==
    LET f1 == [w.frame EXCEPT !.capInsets[inset] = value]
    IN IF f1.texture = null THEN [w EXCEPT !.frame = f1]
       ELSE IF f1.rect = NoValue THEN [w EXCEPT !.frame = [f1 EXCEPT !.threw = TRUE]]
       ELSE [w EXCEPT !.frame = calculateSlicedUV(f1, w.textures[f1.texture])]

\* What a listener of the frame's 'load' event reads from the frame.
Seen(f) ==
    [rect |-> f.rect, offset |-> f.offset, originalSize |-> f.originalSize, uv |-> f.uv,
     texture |-> f.texture]

\* emit("load").
emitLoad(f) == [f EXCEPT !.emits = Append(@, Seen(f))]

\* _textureLoadedCallback(): nothing when the texture was cleared; otherwise the rect,
\* the original size and the offset that are missing are taken from the texture, the
\* UVs are computed and 'load' is emitted.
textureLoadedCallback(w) ==
    IF w.frame.texture = null
    THEN w
    ELSE LET tex == w.textures[w.frame.texture]
             f0 == w.frame
             f1 == IF f0.rotated /\ w.renderType = "RENDER_TYPE_CANVAS"
                   THEN setRect([f0 EXCEPT !.rotated = FALSE], Rect(0, 0, tex.width, tex.height))
                   ELSE f0
             f2 == IF f1.rect # NoValue
                   THEN [f1 EXCEPT !.errors = @ \cup checkRect(f1, tex)]
                   ELSE setRect(f1, Rect(0, 0, tex.width, tex.height))
             f3 == IF f2.originalSize = NoValue
                   THEN setOriginalSize(f2, Size(tex.width, tex.height)) ELSE f2
             f4 == IF f3.offset = NoValue THEN setOffset(f3, V2(0, 0)) ELSE f3
         IN [w EXCEPT !.frame = emitLoad(calculateUV(f4, tex))]

\* texture.once('load', this._textureLoadedCallback, this).
onceLoad(w, t) == [w EXCEPT !.textures[t].listening = TRUE]

\* _refreshTexture(texture).
refreshTexture(w, t) ==
    LET w1 == [w EXCEPT !.frame.texture = t]
    IN IF w1.textures[t].loaded THEN textureLoadedCallback(w1) ELSE onceLoad(w1, t)

\* _loadTexture().
loadTexture(w) ==
    IF w.frame.textureFilename # ""
    THEN refreshTexture(w, loadImage(w.frame.textureFilename))
    ELSE w

\* setTexture(textureOrTextureFile, rect, rotated, offset, originalSize): rect, offset
\* and original size are set or nulled, then a file name is loaded, and a texture
\* other than the one the frame has is refreshed.
setTexture(w, textureOrTextureFile, rect, rotated, offset, originalSize) ==
    LET f1 == IF rect # NoValue THEN setRect(w.frame, rect) ELSE [w.frame EXCEPT !.rect = NoValue]
        f2 == IF offset # NoValue THEN setOffset(f1, offset) ELSE [f1 EXCEPT !.offset = NoValue]
        f3 == IF originalSize # NoValue
              THEN setOriginalSize(f2, originalSize) ELSE [f2 EXCEPT !.originalSize = NoValue]
        w1 == [w EXCEPT !.frame = [f3 EXCEPT !.rotated = rotated]]
    IN IF textureOrTextureFile \in Files
       THEN loadTexture([w1 EXCEPT !.frame.textureFilename = textureOrTextureFile])
       ELSE IF textureOrTextureFile \in Textures /\ w1.frame.texture # textureOrTextureFile
       THEN refreshTexture(w1, textureOrTextureFile)
       ELSE w1

\* texture.url.
url(t) == IF t = "T1" THEN "f1" ELSE "f2"

\* The setter _textureSetter, which the loader assigns a loaded dependency to.
textureSetter(w, texture) ==
    IF texture # null
    THEN LET w1 == IF w.frame.texture # texture THEN refreshTexture(w, texture) ELSE w
         IN [w1 EXCEPT !.frame.textureFilename = url(texture)]
    ELSE w

\* _deserialize(data, handle): the fields of the frame that the data holds; rect,
\* offset and originalSize are arrays of numbers, a missing field is no field of the
\* record, and `triangles`, `x` and `y` of the vertices are carried as they are and left
\* out here. The texture of the data is assigned to _textureSetter later, by the loader.
deserialize(f, data) ==
    LET has(field) == field \in DOMAIN data
        f1 == IF has("rect")
              THEN setRect(f, Rect(data.rect[1], data.rect[2], data.rect[3], data.rect[4]))
              ELSE f
        f2 == IF has("offset") THEN setOffset(f1, V2(data.offset[1], data.offset[2])) ELSE f1
        f3 == IF has("originalSize")
              THEN setOriginalSize(f2, Size(data.originalSize[1], data.originalSize[2]))
              ELSE f2
        f4 == [f3 EXCEPT !.rotated = has("rotated") /\ data.rotated = 1, !.name = data.name]
        f5 == IF has("capInsets") THEN [f4 EXCEPT !.capInsets = data.capInsets] ELSE f4
    IN [f5 EXCEPT !.vertices = IF has("vertices")
                               THEN [u |-> data.vertices.u, v |-> data.vertices.v,
                                     nu |-> <<>>, nv |-> <<>>]
                               ELSE NoValue]

\* ensureLoadTexture().
ensureLoadTexture(w) ==
    IF w.frame.texture # null
    THEN IF ~w.textures[w.frame.texture].loaded THEN refreshTexture(w, w.frame.texture) ELSE w
    ELSE IF w.frame.textureFilename # "" THEN loadTexture(w) ELSE w

\* clearTexture().
clearTexture(w) == [w EXCEPT !.frame.texture = null]

\* The image of texture t has arrived: the texture is loaded, has its size, and emits
\* 'load', which runs the frame's callback when it waits for it, once.
textureLoad(w, t) ==
    LET w1 == [w EXCEPT !.textures[t] = LoadedTexture(t)]
    IN IF w.textures[t].listening THEN textureLoadedCallback(w1) ELSE w1

----------------------------------------------------------------------------
(* VideoClip: the asset of a video                                         *)

VideoClips == {"V1", "V2", "V3"}

\* What is assigned to _nativeAsset: null, undefined, a clip of duration 0, a clip of
\* duration 3, and an object without a duration.
NativeClips ==
    {NoValue, [undefined |-> TRUE], [duration |-> 0], [duration |-> 3], [src |-> "clip"]}

\* `if (clip)`.
Truthy(clip) == clip # NoValue /\ clip # [undefined |-> TRUE]

\* clip.duration.
DurationOf(clip) == IF "duration" \in DOMAIN clip THEN clip.duration ELSE undefined

\* constructor().
NewVideoClip == [video |-> NoValue, duration |-> 0, loaded |-> FALSE]

\* set _nativeAsset(clip) that keeps the duration of the clip before when the clip is
\* null.
setNativeAsset_keepsDuration(c, clip) ==
    IF Truthy(clip)
    THEN [c EXCEPT !.video = clip, !.duration = DurationOf(clip), !.loaded = TRUE]
    ELSE [c EXCEPT !.video = clip, !.loaded = FALSE]

\* set _nativeAsset(clip).
setNativeAsset(c, clip) ==
    IF Truthy(clip)
    THEN [c EXCEPT !.video = clip, !.duration = DurationOf(clip), !.loaded = TRUE]
    ELSE [c EXCEPT !.video = clip, !.duration = 0, !.loaded = FALSE]

\* get _nativeAsset().
getNativeAsset(c) == c.video

----------------------------------------------------------------------------
(* Actions: one per RenderScene operation                                  *)

vars == <<sceneVars, rayVars, query, updated, tested, assetVars, call>>

\* The variables take the values of the state `st` the operation returned.
Becomes(st) ==
    /\ name' = st.name
    /\ cameras' = st.cameras
    /\ models' = st.models
    /\ directionalLights' = st.directionalLights
    /\ sphereLights' = st.sphereLights
    /\ spotLights' = st.spotLights
    /\ mainLight' = st.mainLight
    /\ modelId' = st.modelId
    /\ scenePoolHandle' = st.scenePoolHandle
    /\ modelArrayHandle' = st.modelArrayHandle
    /\ sphereLightsHandle' = st.sphereLightsHandle
    /\ spotLightsHandle' = st.spotLightsHandle
    /\ ScenePool' = st.ScenePool
    /\ ModelArrayPool' = st.ModelArrayPool
    /\ LightArrayPool' = st.LightArrayPool
    /\ entityScene' = st.entityScene
    /\ modelHandle' = st.modelHandle
    /\ lightNode' = st.lightNode
    /\ hasChangedFlags' = st.hasChangedFlags
    /\ freedUnallocated' = st.freedUnallocated

\* A bookkeeping operation was called; it leaves the raycast state alone.
Called(op, s, arg) ==
    /\ call' = [op |-> op, scene |-> s, arg |-> arg]
    /\ UNCHANGED <<rayVars, query, updated, tested, assetVars>>

\* The module-level raycast variables take the values of the state `rs`.
BecomesRay(rs) ==
    /\ pool' = rs.pool
    /\ poolUI' = rs.poolUI
    /\ resultModels' = rs.resultModels
    /\ resultCanvas' = rs.resultCanvas
    /\ resultAll' = rs.resultAll
    /\ resultSingleModel' = rs.resultSingleModel
    /\ narrowDis' = rs.narrowDis
    /\ modelRay' = rs.modelRay

\* A raycast was called with these arguments and came back with this outcome: it
\* returned `hit`, or threw a TypeError; it leaves the bookkeeping alone. `again`
\* tells that the call before it was the same method with the same arguments.
Queried(op, s, rs, model, worldRay, mask, distance) ==
    /\ BecomesRay(rs)
    /\ query' = [model |-> model, ray |-> worldRay, mask |-> mask, distance |-> distance,
                 hit |-> rs.hit, threw |-> rs.threw,
                 again |-> /\ call.op = op /\ call.scene = s
                           /\ query.model = model /\ query.ray = worldRay
                           /\ query.mask = mask /\ query.distance = distance]
    /\ call' = [op |-> op, scene |-> s, arg |-> "none"]
    /\ UNCHANGED <<sceneVars, modelAttr, uiAttr, updated, tested, assetVars>>

\* The masks and the max distances the queries are called with.
Masks == {{"DEFAULT"}, {"UI_2D"}, LayerBits}
Distances == {4, 6, Infinity}

NoQuery == [model |-> null, ray |-> "none", mask |-> {}, distance |-> Infinity,
            hit |-> FALSE, threw |-> FALSE, again |-> FALSE]

\* Every scene has been constructed: `new RenderScene(root)` for each.
Constructed == constructor(constructor(Blank, "S1"), "S2")

\* The number of entries in the five lists of scene s.
Entries(s) ==
    Len(cameras[s]) + Len(models[s]) + Len(directionalLights[s])
        + Len(sphereLights[s]) + Len(spotLights[s])

Room(s) == Entries(s) < MaxEntities

Initialize(s) ==
    \E info \in Names : Becomes(initialize(State, s, info)) /\ Called("initialize", s, info)

Destroy(s) == Becomes(destroy(State, s)) /\ Called("destroy", s, "none")

AddCamera(s) ==
    \E e \in Cameras : Room(s) /\ Becomes(addCamera(State, s, e)) /\ Called("addCamera", s, e)

RemoveCamera(s) ==
    \E e \in Cameras : Becomes(removeCamera(State, s, e)) /\ Called("removeCamera", s, e)

RemoveCameras(s) == Becomes(removeCameras(State, s)) /\ Called("removeCameras", s, "none")

SetMainLight(s) ==
    \E e \in DirLights : Becomes(setMainLight(State, s, e)) /\ Called("setMainLight", s, e)

UnsetMainLight(s) ==
    \E e \in DirLights : Becomes(unsetMainLight(State, s, e)) /\ Called("unsetMainLight", s, e)

AddDirectionalLight(s) ==
    \E e \in DirLights :
        Room(s) /\ Becomes(addDirectionalLight(State, s, e)) /\ Called("addDirectionalLight", s, e)

RemoveDirectionalLight(s) ==
    \E e \in DirLights :
        Becomes(removeDirectionalLight(State, s, e)) /\ Called("removeDirectionalLight", s, e)

AddSphereLight(s) ==
    \E e \in SphereLights :
        Room(s) /\ Becomes(addSphereLight(State, s, e)) /\ Called("addSphereLight", s, e)

RemoveSphereLight(s) ==
    \E e \in SphereLights :
        Becomes(removeSphereLight(State, s, e)) /\ Called("removeSphereLight", s, e)

RemoveSphereLights(s) ==
    Becomes(removeSphereLights(State, s)) /\ Called("removeSphereLights", s, "none")

AddSpotLight(s) ==
    \E e \in SpotLights :
        Room(s) /\ Becomes(addSpotLight(State, s, e)) /\ Called("addSpotLight", s, e)

RemoveSpotLight(s) ==
    \E e \in SpotLights :
        Becomes(removeSpotLight(State, s, e)) /\ Called("removeSpotLight", s, e)

RemoveSpotLights(s) ==
    Becomes(removeSpotLights(State, s)) /\ Called("removeSpotLights", s, "none")

AddModel(s) ==
    \E e \in Models : Room(s) /\ Becomes(addModel(State, s, e)) /\ Called("addModel", s, e)

RemoveModel(s) ==
    \E e \in Models : Becomes(removeModel(State, s, e)) /\ Called("removeModel", s, e)

RemoveModels(s) == Becomes(removeModels(State, s)) /\ Called("removeModels", s, "none")

\* The index positions narrowphase reads its triangles from, in order.
trianglesTested(ib, pm) ==
    CASE pm = "TRIANGLE_LIST" -> listTested(ib, 0)
      [] pm = "TRIANGLE_STRIP" -> stripTested(ib, 0, 0)
      [] pm = "TRIANGLE_FAN" -> fanTested(ib, 1)
      [] OTHER -> <<>>

\* The index positions narrowphase reads: those of its triangles and, for a fan, ib[0],
\* which is read before the loop.
positionsRead(ib, pm) ==
    {trianglesTested(ib, pm)[k][c] : k \in 1..Len(trianglesTested(ib, pm)), c \in 1..3}
        \cup (IF pm = "TRIANGLE_FAN" THEN {0} ELSE {})

\* narrowphase on the index buffer held in `tested`, for the model ray the caller has
\* set; it leaves its nearest distance in narrowDis.
Narrowphase ==
    /\ narrowDis' = narrowphase(modelRay, tested.ib, tested.pm, tested.sides, Infinity)
    /\ tested' = [tested EXCEPT !.triangles = trianglesTested(tested.ib, tested.pm),
                                 !.reads = positionsRead(tested.ib, tested.pm)]
    /\ call' = [op |-> "narrowphase", scene |-> "none", arg |-> tested.pm]
    /\ UNCHANGED <<sceneVars, modelAttr, uiAttr, pool, poolUI, resultModels, resultCanvas,
                   resultAll, resultSingleModel, modelRay, query, updated, assetVars>>

\* narrowphase on the triangle strip held in `tested`.
NarrowphaseStrip == tested.pm = "TRIANGLE_STRIP" /\ Narrowphase

\* generateModelId(): it returns the counter as it was (`this._modelId++`), logged as
\* the `arg` of the call.
GenerateModelId(s) ==
    /\ modelId[s] < MaxIds
    /\ Becomes(generateModelId(State, s))
    /\ Called("generateModelId", s, modelId[s])

\* The stamps update is called with.
Stamps == {1, 2}

UpdateWith(s, stamps) ==
    \E stamp \in stamps :
        /\ updated' = update(State, modelAttr, s, stamp)
        /\ call' = [op |-> "update", scene |-> s, arg |-> stamp]
        /\ UNCHANGED <<sceneVars, rayVars, query, tested, assetVars>>

Update(s) == UpdateWith(s, Stamps)

\* The four queries, called with any ray and a mask and a max distance of the given
\* sets.
RaycastAllModelsWith(s, masks, distances) ==
    \E r \in Rays, mask \in masks, distance \in distances :
        Queried("raycastAllModels", s, raycastAllModels(RayState, models[s], r, mask, distance),
                null, r, mask, distance)

RaycastSingleModelWith(s, masks, distances) ==
    \E m \in Models \cup {null}, r \in Rays, mask \in masks, distance \in distances :
        Queried("raycastSingleModel", s, raycastSingleModel(RayState, m, r, mask, distance),
                m, r, mask, distance)

RaycastAllCanvasWith(s, masks, distances) ==
    \E r \in Rays, mask \in masks, distance \in distances :
        Queried("raycastAllCanvas", s, raycastAllCanvas(RayState, r, mask, distance),
                null, r, mask, distance)

RaycastAllWith(s, masks, distances) ==
    \E r \in Rays, mask \in masks, distance \in distances :
        Queried("raycastAll", s, raycastAll(RayState, models[s], r, mask, distance),
                null, r, mask, distance)

RaycastAllModels(s) == RaycastAllModelsWith(s, Masks, Distances)

RaycastSingleModel(s) == RaycastSingleModelWith(s, Masks, Distances)

RaycastAllCanvas(s) == RaycastAllCanvasWith(s, Masks, Distances)

RaycastAll(s) == RaycastAllWith(s, Masks, Distances)

----------------------------------------------------------------------------
(* Actions: SpriteFrame and VideoClip                                      *)

\* The rect, the offset and the original size a caller passes to setTexture.
GivenRects == {Rect(1, 1, 2, 2)}
GivenOffsets == {V2(1, 0)}
GivenSizes == {Size(3, 3)}

\* The state a method of the frame starts from: the events and the errors of the
\* operation before are not part of it.
Fresh == [AssetState EXCEPT !.frame.emits = <<>>, !.frame.errors = {}, !.frame.threw = FALSE]

\* The frame and the textures take the values of `w`; a texture the frame has again is
\* no longer dropped.
AssetsBecome(w, newlyDropped) ==
    /\ frame' = w.frame
    /\ textures' = w.textures
    /\ dropped' = (dropped \cup newlyDropped) \ {w.frame.texture}
    /\ UNCHANGED <<renderType, clips>>

\* A method of an asset was called; it leaves the scenes and the raycasts alone.
AssetCalled(op, on, arg) ==
    /\ call' = [op |-> op, scene |-> on, arg |-> arg]
    /\ UNCHANGED <<sceneVars, rayVars, query, updated, tested>>

\* The values the setters of the frame are called with.
SetRects == GivenRects \cup {NoValue}
InsetValues == {0, 1}

\* The data _deserialize is called with.
SerializedFrames ==
    {[name |-> "frame", rect |-> <<0, 0, 2, 2>>, offset |-> <<1, 0>>, originalSize |-> <<3, 3>>,
      rotated |-> 1, capInsets |-> <<1, 0, 1, 0>>,
      vertices |-> [u |-> <<0, 2>>, v |-> <<0, 2>>]],
     [name |-> "frame", rect |-> <<0, 0, 2, 2>>, capInsets |-> <<0, 0, 0, 0>>],
     [name |-> "bare"]}

\* setTexture with arguments from the given sets.
SetTextureWith(textureOrFiles, rects, rotateds, offsets, originalSizes) ==
    \E tf \in textureOrFiles, rect \in rects, rotated \in rotateds, offset \in offsets,
       originalSize \in originalSizes :
        /\ AssetsBecome(setTexture(Fresh, tf, rect, rotated, offset, originalSize), {})
        /\ AssetCalled("setTexture", "none", tf)
        /\ UNCHANGED setters

\* A method that changes the frame alone.
FrameBecomes(f) == AssetsBecome([Fresh EXCEPT !.frame = f], {})

\* One more call of a setter, while the behaviour has calls left.
Counted == setters < MaxSetterCalls /\ setters' = setters + 1

SetRect ==
    \E rect \in SetRects :
        /\ FrameBecomes(setRect(Fresh.frame, rect))
        /\ AssetCalled("setRect", "none", "none")
        /\ Counted

SetOriginalSize ==
    \E size \in GivenSizes :
        /\ FrameBecomes(setOriginalSize(Fresh.frame, size))
        /\ AssetCalled("setOriginalSize", "none", "none")
        /\ Counted

SetOffset ==
    \E offsets \in GivenOffsets :
        /\ FrameBecomes(setOffset(Fresh.frame, offsets))
        /\ AssetCalled("setOffset", "none", "none")
        /\ Counted

SetRotated ==
    \E bRotated \in BOOLEAN :
        /\ FrameBecomes(setRotated(Fresh.frame, bRotated))
        /\ AssetCalled("setRotated", "none", "none")
        /\ Counted

\* An assignment to insetLeft, insetTop, insetRight or insetBottom.
SetInset(insets) ==
    \E inset \in insets, value \in InsetValues :
        /\ AssetsBecome(setInset(Fresh, inset, value), {})
        /\ AssetCalled("inset", "none", inset)
        /\ Counted

\* An assignment to _textureSetter.
TextureSetter ==
    \E texture \in Textures \cup {null} :
        /\ AssetsBecome(textureSetter(Fresh, texture), {})
        /\ AssetCalled("_textureSetter", "none", texture)
        /\ Counted

Deserialize(datas) ==
    \E data \in datas :
        /\ FrameBecomes(deserialize(Fresh.frame, data))
        /\ AssetCalled("_deserialize", "none", data.name)
        /\ Counted

SetTexture ==
    SetTextureWith(Textures \cup Files \cup {""}, GivenRects \cup {NoValue}, BOOLEAN,
                   GivenOffsets \cup {NoValue}, GivenSizes \cup {NoValue})

EnsureLoadTexture ==
    /\ AssetsBecome(ensureLoadTexture(Fresh), {})
    /\ AssetCalled("ensureLoadTexture", "none", "none")
    /\ UNCHANGED setters

ClearTexture ==
    /\ AssetsBecome(clearTexture(Fresh),
                    IF frame.texture # null /\ ~textures[frame.texture].loaded
                    THEN {frame.texture} ELSE {})
    /\ AssetCalled("clearTexture", "none", "none")
    /\ UNCHANGED setters

\* The 'load' event of texture t, which happens once; `arg` tells whether the frame's
\* callback ran.
TextureLoads(t) ==
    /\ ~textures[t].loaded
    /\ frame' = textureLoad(Fresh, t).frame
    /\ textures' = textureLoad(Fresh, t).textures
    /\ dropped' = dropped \ {t}
    /\ UNCHANGED <<renderType, setters, clips>>
    /\ AssetCalled("textureLoad", t, IF textures[t].listening THEN "callback" ELSE "none")

\* An assignment to _nativeAsset of video clip asset v.
SetNativeAsset(v) ==
    \E clip \in NativeClips :
        /\ clips' = [clips EXCEPT ![v] = setNativeAsset(@, clip)]
        /\ UNCHANGED <<frame, textures, renderType, dropped, setters>>
        /\ AssetCalled("_nativeAsset", v, clip)

----------------------------------------------------------------------------
(* Specifications                                                          *)

\* The variables hold the values of the state `st`.
Starts(st) ==
    /\ name = st.name
    /\ cameras = st.cameras
    /\ models = st.models
    /\ directionalLights = st.directionalLights
    /\ sphereLights = st.sphereLights
    /\ spotLights = st.spotLights
    /\ mainLight = st.mainLight
    /\ modelId = st.modelId
    /\ scenePoolHandle = st.scenePoolHandle
    /\ modelArrayHandle = st.modelArrayHandle
    /\ sphereLightsHandle = st.sphereLightsHandle
    /\ spotLightsHandle = st.spotLightsHandle
    /\ ScenePool = st.ScenePool
    /\ ModelArrayPool = st.ModelArrayPool
    /\ LightArrayPool = st.LightArrayPool
    /\ entityScene = st.entityScene
    /\ modelHandle = st.modelHandle
    /\ lightNode = st.lightNode
    /\ hasChangedFlags = st.hasChangedFlags
    /\ freedUnallocated = st.freedUnallocated
    /\ call = [op |-> "constructor", scene |-> "S1", arg |-> "none"]

\* The frame is new, the video clips are new, and the textures in one of `loadedSets`
\* have their image.
StartsAssets(types, loadedSets) ==
    \E rt \in types, ld \in loadedSets :
        /\ frame = NewFrame
        /\ textures = [t \in Textures |-> IF t \in ld THEN LoadedTexture(t) ELSE UnloadedTexture]
        /\ renderType = rt
        /\ dropped = {}
        /\ setters = 0
        /\ clips = [v \in VideoClips |-> NewVideoClip]

\* The module has been loaded and no raycast has run.
StartsQueries(models0, ui0) ==
    /\ modelAttr = models0
    /\ uiAttr = ui0
    /\ pool = Loaded.pool
    /\ poolUI = Loaded.poolUI
    /\ resultModels = Loaded.resultModels
    /\ resultCanvas = Loaded.resultCanvas
    /\ resultAll = Loaded.resultAll
    /\ resultSingleModel = Loaded.resultSingleModel
    /\ narrowDis = Loaded.narrowDis
    /\ modelRay = Loaded.modelRay
    /\ query = NoQuery
    /\ updated = <<>>
    /\ tested = [ib |-> <<>>, pm |-> "none", sides |-> FALSE, triangles |-> <<>>, reads |-> {}]

\* The same, with assets nothing has touched.
StartsRay(models0, ui0) ==
    /\ StartsQueries(models0, ui0)
    /\ StartsAssets({"RENDER_TYPE_WEBGL"}, {{}})

BaseModels == [m \in Models |-> BaseModel]
BaseUINodes == [n \in UINodes |-> BaseUI]

\* A UI tree whose nodes differ in layer: uiA carries IGNORE_RAYCAST next to UI_2D, uiB
\* is on the DEFAULT layer.
LayeredUINodes ==
    [BaseUINodes EXCEPT !["uiA"].layer = {"IGNORE_RAYCAST", "UI_2D"}, !["uiB"].layer = {"DEFAULT"}]

\* The scene the bookkeeping specifications drive; the other stays as constructed.
Driven == {"S1"}

Init == Starts(Constructed) /\ StartsRay(BaseModels, BaseUINodes)

\* Every bookkeeping operation of RenderScene.
Next ==
    \E s \in Driven :
        \/ Initialize(s) \/ Destroy(s)
        \/ AddCamera(s) \/ RemoveCamera(s) \/ RemoveCameras(s)
        \/ AddDirectionalLight(s) \/ RemoveDirectionalLight(s)
        \/ AddSphereLight(s) \/ RemoveSphereLight(s) \/ RemoveSphereLights(s)
        \/ AddSpotLight(s) \/ RemoveSpotLight(s) \/ RemoveSpotLights(s)
        \/ AddModel(s) \/ RemoveModel(s) \/ RemoveModels(s)
        \/ Update(s)

Spec == Init /\ [][Next]_vars

\* Models, sphere lights and spot lights (the mirrored lists), destroy and initialize.
NextSync ==
    \E s \in Driven :
        \/ Initialize(s) \/ Destroy(s)
        \/ AddSphereLight(s) \/ RemoveSphereLight(s) \/ RemoveSphereLights(s)
        \/ AddSpotLight(s) \/ RemoveSpotLight(s) \/ RemoveSpotLights(s)
        \/ AddModel(s) \/ RemoveModel(s) \/ RemoveModels(s)

SpecSync == Init /\ [][NextSync]_vars

\* A directional light's node may be unset, and its flags may already carry POSITION.
InitLight ==
    \E nodes \in [DirLights -> BOOLEAN], flags \in [DirLights -> {0, 1}] :
        /\ Starts([Constructed EXCEPT !.lightNode = nodes, !.hasChangedFlags = flags])
        /\ StartsRay(BaseModels, BaseUINodes)

\* Directional lights, the main light and destroy.
NextLight ==
    \E s \in Driven :
        \/ Destroy(s)
        \/ AddDirectionalLight(s) \/ RemoveDirectionalLight(s)
        \/ SetMainLight(s) \/ UnsetMainLight(s)

SpecLight == InitLight /\ [][NextLight]_vars

\* Models only, with destroy and initialize.
NextModels ==
    \E s \in Driven :
        \/ Initialize(s) \/ Destroy(s)
        \/ AddModel(s) \/ RemoveModel(s) \/ RemoveModels(s)

SpecModels == Init /\ [][NextModels]_vars

\* The life cycle: entities of every kind are added, the scene is destroyed and
\* initialised again.
NextLife ==
    \E s \in Driven :
        \/ Initialize(s) \/ Destroy(s)
        \/ AddCamera(s) \/ AddDirectionalLight(s) \/ AddSphereLight(s)
        \/ AddSpotLight(s) \/ AddModel(s)

SpecLife == Init /\ [][NextLife]_vars

\* The five add operations and the five single-entity remove operations.
NextRemove ==
    \E s \in Driven :
        \/ AddCamera(s) \/ RemoveCamera(s)
        \/ AddDirectionalLight(s) \/ RemoveDirectionalLight(s)
        \/ AddSphereLight(s) \/ RemoveSphereLight(s)
        \/ AddSpotLight(s) \/ RemoveSpotLight(s)
        \/ AddModel(s) \/ RemoveModel(s)

SpecRemove == Init /\ [][NextRemove]_vars

----------------------------------------------------------------------------
(* Properties of the bookkeeping                                           *)

\* The entries of the packed array a handle denotes; no array, no entries.
Packed(store, h) == IF Live(store, h) THEN store[h].data ELSE <<>>

HandlesOfModels(list) == [i \in 1..Len(list) |-> modelHandle[list[i]]]

HandlesOfLights(list) == [i \in 1..Len(list) |-> LightHandle(list[i])]

PackedModels(s) == Packed(ModelArrayPool, modelArrayHandle[s])

AllHandlesNull(s) ==
    /\ scenePoolHandle[s] = NULL_HANDLE
    /\ modelArrayHandle[s] = NULL_HANDLE
    /\ sphereLightsHandle[s] = NULL_HANDLE
    /\ spotLightsHandle[s] = NULL_HANDLE

\* `after` is `before` without its first element identical to e, the rest in order.
FirstRemoved(before, after, e) ==
    \E i \in 1..Len(before) :
        /\ before[i] = e
        /\ \A k \in 1..(i - 1) : before[k] # e
        /\ after = SubSeq(before, 1, i - 1) \o SubSeq(before, i + 1, Len(before))

Occurrences(list, e) == Cardinality({i \in 1..Len(list) : list[i] = e})

\* C1: in every reachable state each packed array (models, sphere lights, spot
\* lights) has the length of its logical list and entry i is the handle of element i.
\* Stated for the arrays that exist: a scene whose handle is freed has no packed array
\* to compare.
C1_PackedMirrorsLists ==
    \A s \in Scenes :
        /\ Live(ModelArrayPool, modelArrayHandle[s]) =>
               PackedModels(s) = HandlesOfModels(models[s])
        /\ Live(LightArrayPool, sphereLightsHandle[s]) =>
               Packed(LightArrayPool, sphereLightsHandle[s]) = HandlesOfLights(sphereLights[s])
        /\ Live(LightArrayPool, spotLightsHandle[s]) =>
               Packed(LightArrayPool, spotLightsHandle[s]) = HandlesOfLights(spotLights[s])

\* C2: on a scene whose handles are allocated, removeModel(x) with x in the list
\* removes the first x from the list and leaves the packed model array equal to the
\* handle sequence of the remaining models, in their order.
C2_RemoveModelErasesItsIndex ==
    [][\A s \in Scenes : \A x \in Models :
          (/\ call' = [op |-> "removeModel", scene |-> s, arg |-> x]
           /\ Live(ModelArrayPool, modelArrayHandle[s])
           /\ x \in Range(models[s]))
          => /\ FirstRemoved(models[s], models'[s], x)
             /\ modelArrayHandle'[s] = modelArrayHandle[s]
             /\ PackedModels(s)' = HandlesOfModels(models[s])']_vars

\* C3: mainLight is null or an element of the directional-light list.
C3_MainLightInList ==
    \A s \in Scenes : mainLight[s] = null \/ mainLight[s] \in Range(directionalLights[s])

\* C4 as stated: with the list [L1, L2] and mainLight = L2, unsetMainLight(L2) makes
\* mainLight L1.
C4_UnsetFallsBackToL1 ==
    [][\A s \in Scenes :
          (/\ call' = [op |-> "unsetMainLight", scene |-> s, arg |-> "L2"]
           /\ directionalLights[s] = <<"L1", "L2">>
           /\ mainLight[s] = "L2")
          => mainLight'[s] = "L1"]_vars

\* C4 amended: with mainLight = L2, unsetMainLight(L2) leaves mainLight = L2 while L2
\* is still the last element of the list [L1, L2]; it makes mainLight L1 once L2 has
\* been removed from the list (list [L1]).
C4_UnsetFallsBackToLastListed ==
    [][\A s \in Scenes :
          (/\ call' = [op |-> "unsetMainLight", scene |-> s, arg |-> "L2"]
           /\ mainLight[s] = "L2")
          => /\ directionalLights[s] = <<"L1", "L2">> => mainLight'[s] = "L2"
             /\ directionalLights[s] = <<"L1">> => mainLight'[s] = "L1"]_vars

\* unsetMainLight(L2) has moved the main light to L1, the only light left in the list.
C4_Witness ==
    /\ call = [op |-> "unsetMainLight", scene |-> "S1", arg |-> "L2"]
    /\ directionalLights["S1"] = <<"L1">>
    /\ mainLight["S1"] = "L1"
    /\ lightNode["L1"] /\ hasChangedFlags["L1"] \div ROTATION = 1

\* C5: unsetMainLight(dl) with dl the main light makes the last element of the list
\* the main light and sets the ROTATION bit of its node's changed-flags (the other
\* bits and the other nodes are left alone); with an empty list mainLight becomes null.
C5_UnsetMainLight ==
    [][\A s \in Scenes : \A dl \in DirLights :
          (/\ call' = [op |-> "unsetMainLight", scene |-> s, arg |-> dl]
           /\ mainLight[s] = dl)
          => LET list == directionalLights[s]
                 last == list[Len(list)]
             IN IF Len(list) > 0
                THEN /\ mainLight'[s] = last
                     /\ lightNode[last] =>
                            /\ (hasChangedFlags'[last] \div ROTATION) % 2 = 1
                            /\ hasChangedFlags'[last] % ROTATION = hasChangedFlags[last] % ROTATION
                     /\ \A l \in DirLights \ {last} : hasChangedFlags'[l] = hasChangedFlags[l]
                ELSE /\ mainLight'[s] = null
                     /\ hasChangedFlags' = hasChangedFlags]_vars

\* unsetMainLight(L1) has fallen back to L2, whose flags now read POSITION | ROTATION.
C5_Witness ==
    /\ call = [op |-> "unsetMainLight", scene |-> "S1", arg |-> "L1"]
    /\ directionalLights["S1"] = <<"L1", "L2">>
    /\ mainLight["S1"] = "L2"
    /\ lightNode["L2"] /\ hasChangedFlags["L2"] = 1 + ROTATION
    /\ hasChangedFlags["L1"] < ROTATION

\* C6: after destroy() the five lists are empty, no entity is attached to the scene
\* and the four handles are null.
C6_DestroyReleasesEverything ==
    \A s \in Scenes :
        (call.op = "destroy" /\ call.scene = s)
        => /\ cameras[s] = <<>> /\ directionalLights[s] = <<>> /\ sphereLights[s] = <<>>
           /\ spotLights[s] = <<>> /\ models[s] = <<>>
           /\ \A e \in Entities : entityScene[e] # s
           /\ AllHandlesNull(s)

\* C7: a destroy() directly after a destroy() of the same scene changes nothing (no
\* list, handle, pool slot or entity) and frees no handle that is not allocated.
C7_DestroyIdempotent ==
    [][(call.op = "destroy" /\ call'.op = "destroy" /\ call'.scene = call.scene)
          => (UNCHANGED sceneVars /\ ~freedUnallocated')]_vars

\* A destroyed scene that had been initialised under a name and populated.
C7_Witness ==
    /\ call = [op |-> "destroy", scene |-> "S1", arg |-> "none"]
    /\ AllHandlesNull("S1")
    /\ name["S1"] = "main"
    /\ directionalLights["S1"] # <<>>
    /\ \E m \in Models : modelHandle[m] = NULL_HANDLE

\* What a single-entity remove does to its list, called with e.
RemovedOnly(before, after, e) ==
    IF e \in Range(before)
    THEN /\ FirstRemoved(before, after, e)
         /\ Occurrences(after, e) = Occurrences(before, e) - 1
    ELSE after = before

\* C8: each single-entity remove drops only the first element identical to e (k
\* occurrences become k-1, the rest keeps its order); with e absent, the list and the
\* packed arrays are unchanged and e stays attached as it was.
C8_RemoveDropsFirstOnly ==
    [][\A s \in Scenes : \A e \in Entities :
          LET list == CASE call'.op = "removeCamera" -> cameras
                        [] call'.op = "removeDirectionalLight" -> directionalLights
                        [] call'.op = "removeSphereLight" -> sphereLights
                        [] call'.op = "removeSpotLight" -> spotLights
                        [] OTHER -> models
              list2 == CASE call'.op = "removeCamera" -> cameras'
                         [] call'.op = "removeDirectionalLight" -> directionalLights'
                         [] call'.op = "removeSphereLight" -> sphereLights'
                         [] call'.op = "removeSpotLight" -> spotLights'
                         [] OTHER -> models'
          IN (/\ call'.op \in {"removeCamera", "removeDirectionalLight", "removeSphereLight",
                               "removeSpotLight", "removeModel"}
              /\ call'.scene = s /\ call'.arg = e)
             => /\ RemovedOnly(list[s], list2[s], e)
                /\ e \notin Range(list[s]) =>
                       /\ ModelArrayPool' = ModelArrayPool
                       /\ LightArrayPool' = LightArrayPool
                       /\ entityScene'[e] = entityScene[e]]_vars

\* removeModel(mA) on [mA, mB, mA] has left [mB, mA]: one of two occurrences went.
C8_Witness ==
    /\ call = [op |-> "removeModel", scene |-> "S1", arg |-> "mA"]
    /\ models["S1"] = <<"mB", "mA">>
    /\ PackedModels("S1") = <<InitialModelHandle("mB"), InitialModelHandle("mA")>>

----------------------------------------------------------------------------
(* Raycast specifications and properties                                   *)

\* A scene holding the models [mA, mB]: mA in any of the model configurations, mB the
\* base model.
InitRay ==
    \E cfg \in ModelCfgs :
        /\ Starts(addModel(addModel(Constructed, "S1", "mA"), "S1", "mB"))
        /\ StartsRay([BaseModels EXCEPT !["mA"] = cfg], BaseUINodes)

\* The two model queries, in any order.
NextRay ==
    \E s \in Driven : RaycastAllModels(s) \/ RaycastSingleModel(s)

SpecRay == InitRay /\ [][NextRay]_vars

\* Two base models under a UI tree of mixed layers, whose grandchild uiC is in any of
\* the UI configurations.
InitCanvas ==
    \E cfg \in UICfgs :
        /\ Starts(addModel(addModel(Constructed, "S1", "mA"), "S1", "mB"))
        /\ StartsRay(BaseModels, [LayeredUINodes EXCEPT !["uiC"] = cfg])

\* The canvas query and the combined query.
NextCanvas ==
    \E s \in Driven : RaycastAllCanvas(s) \/ RaycastAll(s)

SpecCanvas == InitCanvas /\ [][NextCanvas]_vars

\* The records a result array holds: its elements are the pools' records, read as the
\* pools hold them now.
Records(array) == RecordsOf(RayState, array)

\* The result array of the query that ran last.
LatestResults ==
    CASE call.op = "raycastAllModels" -> Records(resultModels)
      [] call.op = "raycastSingleModel" -> Records(resultSingleModel)
      [] call.op = "raycastAllCanvas" -> Records(resultCanvas)
      [] call.op = "raycastAll" -> Records(resultAll)
      [] OTHER -> <<>>

\* A layer the query must leave out: it carries IGNORE_RAYCAST or shares no bit with
\* the mask.
Excluded(layer, mask) == "IGNORE_RAYCAST" \in layer \/ layer \cap mask = {}

\* A query of one of these operations ran last and returned (it did not throw).
Returned(ops) == call.op \in ops /\ ~query.threw

\* C9: after raycastAllModels or raycastSingleModel no model, and after
\* raycastAllCanvas no UI node, whose layer carries IGNORE_RAYCAST or shares no bit
\* with the supplied mask is among the results.
C9_ExcludedLayersNeverInResults ==
    /\ Returned({"raycastAllModels", "raycastSingleModel"}) =>
           \A i \in DOMAIN LatestResults :
               ~Excluded(modelAttr[LatestResults[i].node].layer, query.mask)
    /\ Returned({"raycastAllCanvas"}) =>
           \A i \in DOMAIN LatestResults :
               ~Excluded(uiAttr[LatestResults[i].node].layer, query.mask)

\* C10: after raycastAllModels or raycastSingleModel no model whose world AABB the
\* ray of the query misses (ray-AABB distance <= 0) is among the results.
C10_AABBMissNeverInResults ==
    Returned({"raycastAllModels", "raycastSingleModel"}) =>
        \A i \in DOMAIN LatestResults :
            ~LE0(rayAABB(query.ray, modelAttr[LatestResults[i].node].worldBounds))

\* Every query in any order, over two base models and the UI tree of mixed layers,
\* with a mask for the UI alone or for every layer and a max distance that cuts the
\* models' triangles off or none.
InitQueries ==
    /\ Starts(addModel(addModel(Constructed, "S1", "mA"), "S1", "mB"))
    /\ StartsRay(BaseModels, LayeredUINodes)

NextQueries ==
    \E s \in Driven :
        \/ RaycastAllModelsWith(s, {{"UI_2D"}, LayerBits}, {4, Infinity})
        \/ RaycastSingleModelWith(s, {{"UI_2D"}, LayerBits}, {4, Infinity})
        \/ RaycastAllCanvasWith(s, {{"UI_2D"}, LayerBits}, {4, Infinity})
        \/ RaycastAllWith(s, {{"UI_2D"}, LayerBits}, {4, Infinity})

SpecQueries == InitQueries /\ [][NextQueries]_vars

----------------------------------------------------------------------------
(* Narrow-phase properties of the model queries                            *)

\* The index windows of a mesh, as positions (0-based) into its index buffer: whole
\* triples of a list, the sliding windows of a strip with the leading pair swapped at
\* odd steps, the apex with each consecutive pair of a fan.
Windows(pm, n) ==
    CASE pm = "TRIANGLE_LIST" -> {<<3 * k, 3 * k + 1, 3 * k + 2>> : k \in 0..((n \div 3) - 1)}
      [] pm = "TRIANGLE_STRIP" ->
             {IF k % 2 = 0 THEN <<k, k + 1, k + 2>> ELSE <<k + 1, k, k + 2>> : k \in 0..(n - 3)}
      [] pm = "TRIANGLE_FAN" -> {<<0, k, k + 1>> : k \in 1..(n - 2)}
      [] OTHER -> {}

\* The distances, in model space, at which the ray crosses the triangles of a sub-mesh.
MeshHits(r, sub) ==
    {d \in {rayTriangle(r, sub.indices[w[1] + 1], sub.indices[w[2] + 1], sub.indices[w[3] + 1],
                        sub.doubleSided) : w \in Windows(sub.primitiveMode, Len(sub.indices))} :
        d > 0}

\* The distances, in world space and in halves, at which the ray crosses the triangles
\* of a model.
ModelHits(r, attr) ==
    UNION {{Scaled(d, attr.worldScale) : d \in MeshHits(r, SubMesh(attr.subModels[i]))} :
               i \in {k \in DOMAIN attr.subModels : attr.subModels[k] # "none"}}

Least(S) == CHOOSE x \in S : \A y \in S : x <= y

\* Every sub-mesh of the model holds whole triangles: the index count of a triangle
\* list is a multiple of three.
WholeTriangles(attr) ==
    \A i \in DOMAIN attr.subModels :
        attr.subModels[i] # "none" =>
            LET sub == SubMesh(attr.subModels[i])
            IN sub.primitiveMode = "TRIANGLE_LIST" => Len(sub.indices) % 3 = 0

\* The models a returned raycastAllModels, or a raycastSingleModel that returned
\* true, has recorded.
ModelRecords ==
    IF Returned({"raycastAllModels"}) \/ (Returned({"raycastSingleModel"}) /\ query.hit)
    THEN LatestResults
    ELSE <<>>

\* C19: with a finite max distance, a DEFAULT model that raycastAllModels or
\* raycastSingleModel records has a triangle that the ray crosses below the max
\* distance; a model without one produces no result, whatever its world scale.
C19_NoTriangleNoResult ==
    query.distance < Infinity =>
        \A i \in DOMAIN ModelRecords :
            LET attr == modelAttr[ModelRecords[i].node]
            IN attr.type = "DEFAULT" =>
                   \E h \in ModelHits(query.ray, attr) : h < Halves(query.distance)

\* C11: a DEFAULT model that raycastAllModels records is recorded once, with the
\* least of the distances at which the ray crosses the triangles of its sub-models.
C11_RecordedDistanceIsNearestHit ==
    Returned({"raycastAllModels"}) =>
        \A i \in DOMAIN LatestResults :
            LET attr == modelAttr[LatestResults[i].node]
                hits == ModelHits(query.ray, attr)
            IN /\ attr.type = "DEFAULT" =>
                      hits # {} /\ LatestResults[i].distance = Least(hits)
               /\ \A k \in DOMAIN LatestResults :
                      LatestResults[k].node = LatestResults[i].node => k = i

\* C12: after raycastAllModels, a DEFAULT model of the scene that passes the filter,
\* whose meshes hold whole triangles, whose bounds the ray enters no later than its
\* nearest triangle, and whose nearest triangle lies at world distance h, is among the
\* results exactly when h is less than the max distance.
C12_RecordedIffNearestHitBelowMax ==
    Returned({"raycastAllModels"}) =>
        \A m \in Range(models[call.scene]) :
            LET attr == modelAttr[m]
                hits == ModelHits(query.ray, attr)
                recorded == \E i \in DOMAIN LatestResults : LatestResults[i].node = m
            IN (/\ ~filtered(attr, query.mask)
                /\ attr.type = "DEFAULT"
                /\ WholeTriangles(attr)
                /\ hits # {}
                /\ rayAABB(query.ray, attr.worldBounds) > 0
                /\ Halves(rayAABB(query.ray, attr.worldBounds)) <= Least(hits))
               => (recorded <=> Least(hits) < Halves(query.distance))


----------------------------------------------------------------------------
(* Properties of the combined query and of the result arrays               *)

\* C13: raycastAll leaves in rayResultAll the results raycastAllModels gives for the
\* same arguments followed by those raycastAllCanvas gives (nothing when neither
\* hits), and returns true exactly when one of the two returns true.
C13_RaycastAllConcatenates ==
    [][\A s \in Scenes :
          (call'.op = "raycastAll" /\ call'.scene = s)
          => LET all == query'
                 m3d == raycastAllModels(RayState, models[s], all.ray, all.mask, all.distance)
                 ui2d == raycastAllCanvas(RayState, all.ray, all.mask, all.distance)
             IN /\ resultModels' = m3d.resultModels
                /\ resultCanvas' = ui2d.resultCanvas
                /\ resultAll' = resultModels' \o resultCanvas'
                /\ Len(resultAll') = Len(resultModels') + Len(resultCanvas')
                /\ (~m3d.hit /\ ~ui2d.hit) => resultAll' = <<>>
                /\ all.hit <=> (m3d.hit \/ ui2d.hit)]_vars

\* A raycastAll that found both models and UI nodes, after an earlier combined result.
C13_Witness ==
    /\ call.op = "raycastAll" /\ query.hit
    /\ Len(resultModels) = 2 /\ Len(resultCanvas) >= 2
    /\ resultAll = resultModels \o resultCanvas
    /\ \A i \in 1..2 : Records(resultAll)[i].node \in Models
    /\ \A i \in 3..Len(resultAll) : Records(resultAll)[i].node \in UINodes

\* C14: a raycast method called twice in a row with the same ray, mask and max
\* distance (and the same model, for raycastSingleModel), the scene untouched in
\* between, gives the same return value and the same sequence of result records the
\* second time, whatever queries ran before the first call.
C14_RepeatedQuerySameResult ==
    [][(query'.again /\ ~query.threw /\ ~query'.threw)
        => /\ query'.hit = query.hit
           /\ LatestResults' = LatestResults]_vars

\* A query that found something was repeated, after queries of the other kinds had
\* left their results behind.
C14_Witness ==
    /\ query.again /\ query.hit
    /\ call.op \in {"raycastAllModels", "raycastAll"}
    /\ Len(LatestResults) >= 2
    /\ Len(resultSingleModel) > 0
    /\ Len(resultCanvas) > 0

\* C15: raycastSingleModel called with a null model does not fault: it returns false
\* without testing anything.
C15_NullModelReturnsFalse ==
    (call.op = "raycastSingleModel" /\ query.model = null)
        => (~query.threw /\ ~query.hit)

----------------------------------------------------------------------------
(* The result pool driven through its reset-epochs                         *)

\* pool.reset(), as every model query starts (lines 393 and 446).
PoolResets ==
    /\ pool' = PoolReset(pool)
    /\ call' = [op |-> "reset", scene |-> "none", arg |-> "none"]
    /\ UNCHANGED <<sceneVars, modelAttr, uiAttr, poolUI, resultModels, resultCanvas, resultAll,
                   resultSingleModel, narrowDis, modelRay, query, updated, tested,
                   assetVars>>

\* One hit recorded, as the loop of raycastAllModels does it (lines 416-419):
\* const r = pool.add(); r.node = m.node; r.distance = d; resultModels[pool.length - 1] = r.
PoolAdds ==
    /\ pool.length < MaxAdds
    /\ \E m \in Models :
           LET put(p) ==
                   /\ pool' = p
                   /\ resultModels' = ArraySet(resultModels, p.length - 1,
                                               Slot("pool", p.length))
           IN put(record(pool, m, 2))
    /\ call' = [op |-> "add", scene |-> "none", arg |-> "none"]
    /\ UNCHANGED <<sceneVars, modelAttr, uiAttr, poolUI, resultCanvas, resultAll,
                   resultSingleModel, narrowDis, modelRay, query, updated, tested,
                   assetVars>>

InitPool ==
    /\ Starts(Constructed)
    /\ StartsRay(BaseModels, BaseUINodes)

NextPool == PoolResets \/ PoolAdds

SpecPool == InitPool /\ [][NextPool]_vars

\* C16: within one reset-epoch every add() hands out a slot that none of the earlier
\* adds of the epoch handed out and raises the length by one, the records handed out
\* earlier staying what they were; the first PoolSize adds leave the storage as large
\* as it is, the add on an exhausted storage enlarges it; reset() sets the length to 0
\* and keeps every record; so the records of one query are pairwise distinct slots.
C16_PoolSlotsDistinctAndStable ==
    [][/\ call'.op = "add"
          => /\ pool'.length = pool.length + 1
             /\ \A i \in 1..pool.length :
                    /\ resultModels'[i].slot # resultModels'[pool'.length].slot
                    /\ pool'.data[i] = pool.data[i]
             /\ \A i, j \in 1..pool'.length :
                    i # j => resultModels'[i] # resultModels'[j]
             /\ pool.length < PoolSize => Len(pool'.data) = Len(pool.data)
             /\ pool.length = Len(pool.data) => Len(pool'.data) > Len(pool.data)
       /\ call'.op = "reset"
          => /\ pool'.length = 0
             /\ pool'.data = pool.data]_vars

\* The add after PoolSize adds of one epoch has enlarged the storage.
C16_Witness ==
    /\ call.op = "add"
    /\ pool.length = PoolSize + 1
    /\ Len(pool.data) > PoolSize
    /\ \A i \in 1..pool.length : pool.data[i].node # null

----------------------------------------------------------------------------
(* The per-frame update                                                    *)

\* Each model is enabled or disabled.
InitUpdate ==
    \E on \in [Models -> BOOLEAN] :
        /\ Starts(Constructed)
        /\ StartsRay([m \in Models |-> [BaseModel EXCEPT !.enabled = on[m]]], BaseUINodes)

\* The main light, sphere lights, spot lights and models are set up, and the scene is
\* updated.
NextUpdate ==
    \E s \in Driven :
        \/ SetMainLight(s) \/ AddSphereLight(s) \/ AddSpotLight(s)
        \/ AddModel(s)
        \/ Update(s)

SpecUpdate == InitUpdate /\ [][NextUpdate]_vars

\* The calls of the latest update that are light updates, and those made on models.
LightCalls == SelectSeq(updated, LAMBDA c : c.method = "update")
ModelCalls == SelectSeq(updated, LAMBDA c : c.method # "update")

\* The entries of the model list of scene s that are enabled, in list order.
EnabledModels(s) == SelectSeq(models[s], LAMBDA m : modelAttr[m].enabled)

\* C17: within one update(stamp) the main light (if set), then the sphere lights, then
\* the spot lights are updated before any model is touched; every enabled entry of the
\* model list gets updateTransform(stamp) then updateUBOs(stamp) once, in list order,
\* and a disabled model gets neither.
C17_UpdateLightsThenEnabledModels ==
    call.op = "update"
        => LET s == call.scene
               main == IF mainLight[s] # null THEN <<mainLight[s]>> ELSE <<>>
               lights == main \o sphereLights[s] \o spotLights[s]
               on == EnabledModels(s)
           IN /\ updated = LightCalls \o ModelCalls
              /\ Len(LightCalls) = Len(lights)
              /\ \A i \in 1..Len(lights) : LightCalls[i].target = lights[i]
              /\ Len(ModelCalls) = 2 * Len(on)
              /\ \A k \in 1..Len(on) :
                     /\ ModelCalls[2 * k - 1] = Invoked(on[k], "updateTransform", call.arg)
                     /\ ModelCalls[2 * k] = Invoked(on[k], "updateUBOs", call.arg)
              /\ \A i \in 1..Len(updated) :
                     updated[i].target \in Models => modelAttr[updated[i].target].enabled

\* An update of a scene with a main light, a sphere or spot light, an enabled model
\* and, before it in the list, a disabled one.
C17_Witness ==
    /\ call.op = "update"
    /\ mainLight[call.scene] # null
    /\ Len(sphereLights[call.scene]) + Len(spotLights[call.scene]) > 0
    /\ Len(models[call.scene]) = 2
    /\ ~modelAttr[models[call.scene][1]].enabled
    /\ modelAttr[models[call.scene][2]].enabled
    /\ Len(updated) = 4

----------------------------------------------------------------------------
(* The frame of the queries                                                *)

\* C18: results are invalidated per pool: raycastAllCanvas leaves the length and the
\* record contents of the model results as they were, and raycastAllModels and
\* raycastSingleModel leave the length and the record contents of the canvas results
\* as they were.
C18_QueriesLeaveTheOtherPool ==
    [][/\ call'.op = "raycastAllCanvas"
          => Records(resultModels)' = Records(resultModels)
       /\ call'.op \in {"raycastAllModels", "raycastSingleModel"}
          => Records(resultCanvas)' = Records(resultCanvas)]_vars

\* A canvas query that hit ran while model results were standing.
C18_Witness ==
    /\ call.op = "raycastAllCanvas" /\ query.hit /\ ~query.again
    /\ Len(resultModels) = 2
    /\ \A i \in 1..Len(resultModels) : Records(resultModels)[i].node \in Models
    /\ Len(resultCanvas) >= 2
    /\ \A i \in 1..Len(resultCanvas) : Records(resultCanvas)[i].node \in UINodes

----------------------------------------------------------------------------
(* The narrow phase on triangle strips                                     *)

\* An index buffer of up to MaxIndices indices into the vertex buffer, of one of the
\* given topologies, single- or double-sided, and a model ray.
InitNarrowphase(topologies) ==
    \E n \in 0..MaxIndices :
        \E ib \in [1..n -> 0..(VertexCount - 1)], pm \in topologies, r \in Rays,
           sides \in BOOLEAN :
            /\ Starts(Constructed)
            /\ modelAttr = BaseModels
            /\ uiAttr = BaseUINodes
            /\ pool = Loaded.pool
            /\ poolUI = Loaded.poolUI
            /\ resultModels = Loaded.resultModels
            /\ resultCanvas = Loaded.resultCanvas
            /\ resultAll = Loaded.resultAll
            /\ resultSingleModel = Loaded.resultSingleModel
            /\ narrowDis = Loaded.narrowDis
            /\ modelRay = r
            /\ query = NoQuery
            /\ updated = <<>>
            /\ tested = [ib |-> ib, pm |-> pm, sides |-> sides, triangles |-> <<>>,
                         reads |-> {}]
            /\ StartsAssets({"RENDER_TYPE_WEBGL"}, {{}})

InitStrip == InitNarrowphase({"TRIANGLE_STRIP"})

NextStrip == NarrowphaseStrip

SpecStrip == InitStrip /\ [][NextStrip]_vars

\* The index positions triangle j of a strip is to be read from.
StripTriangle(j) == IF j % 2 = 0 THEN <<j, j + 1, j + 2>> ELSE <<j + 1, j, j + 2>>

\* C20: on a TRIANGLE_STRIP of n >= 3 indices the narrow phase tests exactly n - 2
\* triangles, triangle j (0-based) read from the index positions (j, j+1, j+2) when j
\* is even and (j+1, j, j+2) when j is odd; the distance it leaves is the nearest of the
\* crossings of these triangles.
C20_StripAlternatesWinding ==
    (call.op = "narrowphase" /\ Len(tested.ib) >= 3)
        => LET n == Len(tested.ib)
               crossing(w) == rayTriangle(modelRay, tested.ib[w[1] + 1], tested.ib[w[2] + 1],
                                          tested.ib[w[3] + 1], tested.sides)
               hits == {d \in {crossing(StripTriangle(j)) : j \in 0..(n - 3)} : d > 0}
           IN /\ Len(tested.triangles) = n - 2
              /\ \A j \in 0..(n - 3) : tested.triangles[j + 1] = StripTriangle(j)
              /\ narrowDis = Least(hits \cup {Infinity})

\* A strip of at least four indices whose second triangle, read with the first two
\* indices swapped, is the only one the ray crosses.
C20_Witness ==
    /\ call.op = "narrowphase" /\ Len(tested.ib) >= 4
    /\ tested.triangles[2] = <<2, 1, 2 + 1>>
    /\ ~tested.sides
    /\ narrowDis = 8

----------------------------------------------------------------------------
(* The narrow phase on every topology                                      *)

PrimitiveModes == {"TRIANGLE_LIST", "TRIANGLE_STRIP", "TRIANGLE_FAN"}

InitTopologies == InitNarrowphase(PrimitiveModes)

NextTopologies == Narrowphase

SpecTopologies == InitTopologies /\ [][NextTopologies]_vars

\* C21: on a TRIANGLE_FAN of n >= 3 indices the narrow phase tests exactly the n - 2
\* triangles at the index positions (0, j, j+1) for j = 1..n-2, the first index being
\* the apex of every one; the distance it leaves is the nearest of the crossings of
\* these triangles.
C21_FanSharesApex ==
    (call.op = "narrowphase" /\ tested.pm = "TRIANGLE_FAN" /\ Len(tested.ib) >= 3)
        => LET n == Len(tested.ib)
               crossing(j) == rayTriangle(modelRay, tested.ib[1], tested.ib[j + 1],
                                          tested.ib[j + 2], tested.sides)
               hits == {d \in {crossing(j) : j \in 1..(n - 2)} : d > 0}
           IN /\ Len(tested.triangles) = n - 2
              /\ \A j \in 1..(n - 2) : tested.triangles[j] = <<0, j, j + 1>>
              /\ narrowDis = Least(hits \cup {Infinity})

\* A fan of at least four indices of which only the second triangle, apex first, is
\* crossed by the ray.
C21_Witness ==
    /\ call.op = "narrowphase" /\ tested.pm = "TRIANGLE_FAN" /\ Len(tested.ib) >= 4
    /\ tested.triangles[2] = <<0, 2, 2 + 1>>
    /\ ~tested.sides
    /\ rayTriangle(modelRay, tested.ib[1], tested.ib[2], tested.ib[3], FALSE) = 0
    /\ narrowDis = 6

----------------------------------------------------------------------------
(* The walk of the UI tree                                                 *)

\* The configurations of a node of the walked tree: as BaseUI, inactive, without a UI
\* transform, carrying IGNORE_RAYCAST, or in a box the first ray misses.
TreeCfgs ==
    {BaseUI, [BaseUI EXCEPT !.active = FALSE], [BaseUI EXCEPT !.uiTransform = FALSE],
     [BaseUI EXCEPT !.layer = {"IGNORE_RAYCAST", "UI_2D"}], [BaseUI EXCEPT !.aabb = "boxB"]}

InitTree ==
    \E ui \in [UINodes -> TreeCfgs] :
        /\ Starts(Constructed)
        /\ StartsRay(BaseModels, ui)

\* The canvas query, with the mask of the UI layer or of the models' layer.
NextTree ==
    \E s \in Driven : RaycastAllCanvasWith(s, {{"UI_2D"}, {"DEFAULT"}}, {4, Infinity})

SpecTree == InitTree /\ [][NextTree]_vars

\* The nodes of the subtrees of `nodes` in pre-order, the subtree of an inactive node
\* left out.
RECURSIVE PreOrder(_)
PreOrder(nodes) ==
    IF nodes = <<>> THEN <<>>
    ELSE (IF uiAttr[Head(nodes)].active
          THEN <<Head(nodes)>> \o PreOrder(Children(Head(nodes)))
          ELSE <<>>)
         \o PreOrder(Tail(nodes))

\* The node is one the latest query has to record: it has a UI transform, its layer is
\* in the mask and without IGNORE_RAYCAST, and the ray enters its box below the cap.
UIHit(n) ==
    /\ uiAttr[n].uiTransform
    /\ ~Excluded(uiAttr[n].layer, query.mask)
    /\ rayAABB(query.ray, uiAttr[n].aabb) > 0
    /\ rayAABB(query.ray, uiAttr[n].aabb) < query.distance

\* C22: raycastAllCanvas walks the UI tree in pre-order, leaving out an inactive node
\* with all its descendants and walking on to the active children of a node it does
\* not record; the canvas results are the hit nodes in the order of the walk, each with
\* its ray-box distance, and as many as there are hits.
C22_CanvasResultsInPreOrder ==
    call.op = "raycastAllCanvas"
        => LET hits == SelectSeq(PreOrder(CanvasNodes), UIHit)
               found == Records(resultCanvas)
           IN /\ Len(found) = Len(hits)
              /\ \A i \in 1..Len(hits) :
                     /\ found[i].node = hits[i]
                     /\ found[i].distance = Halves(rayAABB(query.ray, uiAttr[hits[i]].aabb))
              /\ query.hit <=> Len(hits) > 0

\* A walk that went below a node it did not record (uiA, without a UI transform) and
\* recorded the canvas, the node below uiA and the sibling after uiA, in this order.
C22_Witness ==
    /\ call.op = "raycastAllCanvas" /\ query.hit
    /\ ~uiAttr["uiA"].uiTransform /\ uiAttr["uiA"].active
    /\ Len(resultCanvas) = 3
    /\ Records(resultCanvas)[2].node = "uiC"
    /\ Records(resultCanvas)[3].node = "uiB"

----------------------------------------------------------------------------
(* Further properties of the main light                                    *)

\* C23: unsetMainLight(dl) with dl not the current main light changes nothing: the
\* main light, the directional-light list and the changed-flags of every light node
\* are what they were before the call.
C23_UnsetOtherLightChangesNothing ==
    [][\A s \in Scenes : \A dl \in DirLights :
          (/\ call' = [op |-> "unsetMainLight", scene |-> s, arg |-> dl]
           /\ mainLight[s] # dl)
          => /\ mainLight' = mainLight
             /\ directionalLights' = directionalLights
             /\ hasChangedFlags' = hasChangedFlags
             /\ UNCHANGED sceneVars]_vars

\* unsetMainLight(L1) was called while L2 was the main light and L1, whose node is
\* unmarked, the last of the list.
C23_Witness ==
    /\ call = [op |-> "unsetMainLight", scene |-> "S1", arg |-> "L1"]
    /\ mainLight["S1"] = "L2"
    /\ directionalLights["S1"] = <<"L2", "L1">>
    /\ lightNode["L1"] /\ hasChangedFlags["L1"] = 0

----------------------------------------------------------------------------
(* The model-id counter                                                    *)

\* addModel and removeModel of one given model.
AddsModel(s, e) == Room(s) /\ Becomes(addModel(State, s, e)) /\ Called("addModel", s, e)

RemovesModel(s, e) == Becomes(removeModel(State, s, e)) /\ Called("removeModel", s, e)

\* Ids are generated while one model is added to and removed from the scene, and the
\* scene is updated, queried, destroyed and initialised again.
NextIds ==
    \E s \in Driven :
        \/ GenerateModelId(s)
        \/ AddsModel(s, "mA") \/ RemovesModel(s, "mA")
        \/ Initialize(s) \/ Destroy(s)
        \/ UpdateWith(s, {1})
        \/ Queried("raycastAllModels", s,
                   raycastAllModels(RayState, models[s], "r1", {"DEFAULT"}, Infinity),
                   null, "r1", {"DEFAULT"}, Infinity)

SpecIds == Init /\ [][NextIds]_vars

\* C24: generateModelId returns the scene's counter, which starts at 0, and advances
\* it by one, so the ids of one scene are 0, 1, 2, ... and none is returned twice; the
\* counter of another scene and every other operation leave the counter alone.
C24_ModelIdsCountUp ==
    /\ \A s \in Scenes : modelId[s] = 0
    /\ [][IF call'.op = "generateModelId"
           THEN /\ call'.arg = modelId[call'.scene]
                /\ modelId' = [modelId EXCEPT ![call'.scene] = @ + 1]
           ELSE modelId' = modelId]_vars

\* The third id of the scene was handed out after a model was added, the scene
\* updated and queried.
C24_Witness ==
    /\ call = [op |-> "generateModelId", scene |-> "S1", arg |-> 2]
    /\ modelId = [s \in Scenes |-> IF s = "S1" THEN 2 + 1 ELSE 0]
    /\ models["S1"] # <<>>
    /\ updated # <<>>
    /\ Len(resultModels) > 0

----------------------------------------------------------------------------
(* The main light in the packed scene record                               *)

\* C26: while the scene's record is allocated, its main-light entry is the handle of
\* the scene's current main light, and the null handle when there is none.
C26_PackedMainLightIsMainLight ==
    \A s \in Scenes :
        Live(ScenePool, scenePoolHandle[s])
            => ScenePool[scenePoolHandle[s]].MAIN_LIGHT =
                   (IF mainLight[s] = null THEN NULL_HANDLE ELSE LightHandle(mainLight[s]))

----------------------------------------------------------------------------
(* The result of raycastSingleModel                                        *)

\* C27: after a raycastSingleModel that returned, the value returned is true exactly
\* when the single-model result array is non-empty, and a non-empty array holds the
\* hit of the model passed to this call.
C27_SingleModelResultIsOfThisCall ==
    Returned({"raycastSingleModel"})
        => /\ query.hit <=> Len(resultSingleModel) > 0
           /\ \A i \in 1..Len(resultSingleModel) :
                  Records(resultSingleModel)[i].node = query.model

----------------------------------------------------------------------------
(* Attachment and membership                                               *)

\* The logical list of scene s that entities of the kind of e are kept in.
ListOf(s, e) ==
    CASE e \in Cameras -> cameras[s]
      [] e \in DirLights -> directionalLights[s]
      [] e \in SphereLights -> sphereLights[s]
      [] e \in SpotLights -> spotLights[s]
      [] e \in Models -> models[s]

\* C28: an entity is attached to scene s exactly when it is an element of the list of
\* its kind of s; no entity is listed in a scene it is not attached to.
C28_AttachedIffListed ==
    \A s \in Scenes : \A e \in Entities :
        entityScene[e] = s <=> e \in Range(ListOf(s, e))

----------------------------------------------------------------------------
(* The four handles of a scene                                             *)

\* The handles scene s holds, as <<pool name, handle>> pairs.
HandlesOf(s) ==
    {<<"ModelArrayPool", modelArrayHandle[s]>>, <<"ScenePool", scenePoolHandle[s]>>,
     <<"LightArrayPool", sphereLightsHandle[s]>>, <<"LightArrayPool", spotLightsHandle[s]>>}

\* The allocated slots of the three pools, as <<pool name, handle>> pairs.
LiveSlots ==
    {<<"ModelArrayPool", h>> : h \in {k \in DOMAIN ModelArrayPool : ModelArrayPool[k].live}}
        \cup {<<"ScenePool", h>> : h \in {k \in DOMAIN ScenePool : ScenePool[k].live}}
        \cup {<<"LightArrayPool", h>> : h \in {k \in DOMAIN LightArrayPool : LightArrayPool[k].live}}

SomeHandleNull(s) == \E p \in HandlesOf(s) : p[2] = NULL_HANDLE

\* Scene s holds four different allocated handles.
AllHandlesAllocated(s) ==
    /\ ~SomeHandleNull(s)
    /\ Cardinality(HandlesOf(s)) = 4
    /\ HandlesOf(s) \subseteq LiveSlots

\* C29: the four handles of a scene are all allocated or all null; no slot is held by two
\* scenes and no allocated slot has lost its holder (an overwritten handle would leave
\* one); a call that finds the handles allocated and is not destroy() leaves the four
\* handles as they are; no free() was issued for a handle that is not allocated.
C29_HandlesAllOrNone ==
    /\ [](/\ \A s \in Scenes : AllHandlesNull(s) \/ AllHandlesAllocated(s)
          /\ HandlesOf("S1") \cap HandlesOf("S2") \subseteq {<<"LightArrayPool", NULL_HANDLE>>}
          /\ LiveSlots = {p \in HandlesOf("S1") \cup HandlesOf("S2") : p[2] # NULL_HANDLE}
          /\ ~freedUnallocated)
    /\ [][\A s \in Scenes :
              (AllHandlesAllocated(s) /\ ~(call'.op = "destroy" /\ call'.scene = s))
                  => /\ scenePoolHandle'[s] = scenePoolHandle[s]
                     /\ modelArrayHandle'[s] = modelArrayHandle[s]
                     /\ sphereLightsHandle'[s] = sphereLightsHandle[s]
                     /\ spotLightsHandle'[s] = spotLightsHandle[s]]_vars

\* initialize() has just run on a scene that holds its four handles, while the other
\* scene holds its own.
C29_Witness ==
    /\ call.op = "initialize" /\ call.scene = "S1"
    /\ AllHandlesAllocated("S1") /\ AllHandlesAllocated("S2")
    /\ Cardinality(LiveSlots) = 8

----------------------------------------------------------------------------
(* The index positions the narrow phase reads                              *)

\* C30: after narrowphase on an index buffer of any length and any topology, every
\* index position it read lies in 0..length-1, and so does every corner of every
\* triangle it formed.
C30_ReadsWithinBuffer ==
    call.op = "narrowphase"
        => /\ tested.reads \subseteq 0..(Len(tested.ib) - 1)
           /\ \A k \in 1..Len(tested.triangles) : \A c \in 1..3 :
                  tested.triangles[k][c] \in 0..(Len(tested.ib) - 1)

----------------------------------------------------------------------------
(* The SpriteFrame and the VideoClip on their own                          *)

\* A new frame under either render type, with any of the textures already loaded.
InitSprite ==
    /\ Starts(Constructed)
    /\ StartsQueries(BaseModels, BaseUINodes)
    /\ StartsAssets(RenderTypes, SUBSET Textures)

\* The operations that set, clear and load the texture of the frame.
NextTexture ==
    \/ SetTexture
    \/ EnsureLoadTexture
    \/ ClearTexture
    \/ \E t \in Textures : TextureLoads(t)

SpecTexture == InitSprite /\ [][NextTexture]_vars

\* A new frame and no texture loaded.
InitFrame ==
    /\ Starts(Constructed)
    /\ StartsQueries(BaseModels, BaseUINodes)
    /\ StartsAssets({"RENDER_TYPE_WEBGL"}, {{}})

\* Every function of the frame that changes it, and the 'load' events of the textures.
NextSprite ==
    \/ SetTextureWith(Textures \cup {""}, SetRects, {FALSE}, {NoValue}, {NoValue})
    \/ EnsureLoadTexture
    \/ ClearTexture
    \/ \E t \in Textures : TextureLoads(t)
    \/ SetRect
    \/ SetOriginalSize
    \/ SetOffset
    \/ SetRotated
    \/ SetInset(1..4)
    \/ TextureSetter
    \/ Deserialize(SerializedFrames)

SpecSprite == InitFrame /\ [][NextSprite]_vars

NextVideo == \E v \in VideoClips : SetNativeAsset(v)

SpecVideo == Init /\ [][NextVideo]_vars

\* C31: whenever textureLoaded() is true, the frame's rect, offset and original size
\* are all non-null.
C31_LoadedFrameIsFilledIn ==
    textureLoaded(AssetState)
        => /\ frame.rect # NoValue
           /\ frame.offset # NoValue
           /\ frame.originalSize # NoValue

\* C32: the 'load' event of a texture that clearTexture() took from the frame while it
\* was loading makes the frame emit no 'load' event and leaves its rect, offset,
\* original size and UVs as they are; and whenever the frame emits 'load', its rect,
\* original size, offset and UVs have been filled in.
C32_ClearedFrameIgnoresLoad ==
    [][/\ (call'.op = "textureLoad" /\ call'.scene \in dropped)
            => /\ frame'.emits = <<>>
               /\ frame'.rect = frame.rect
               /\ frame'.offset = frame.offset
               /\ frame'.originalSize = frame.originalSize
               /\ frame'.uv = frame.uv
               /\ frame'.uvSliced = frame.uvSliced
       /\ \A k \in 1..Len(frame'.emits) :
              /\ frame'.emits[k].rect # NoValue
              /\ frame'.emits[k].originalSize # NoValue
              /\ frame'.emits[k].offset # NoValue
              /\ Len(frame'.emits[k].uv) = 8]_vars

----------------------------------------------------------------------------
(* The native asset of a VideoClip                                         *)

\* The fields of a video clip asset whose latest assigned native clip is `clip`.
HoldsClip(c, clip) ==
    /\ getNativeAsset(c) = clip
    /\ c.loaded <=> clip \notin {NoValue, [undefined |-> TRUE]}
    /\ c.duration = (IF clip \in {NoValue, [undefined |-> TRUE]} THEN 0
                     ELSE IF "duration" \in DOMAIN clip THEN clip.duration ELSE undefined)

\* C33: after an assignment to _nativeAsset, loaded is true exactly when the assigned
\* clip is non-null, _nativeAsset reads back that clip and _duration is the clip's
\* duration, or 0 when it is null; this stays so for every video clip asset, since an
\* assignment to one asset changes no other.
C33_NativeAssetDecidesLoaded ==
    /\ [](/\ call.op = "_nativeAsset" => HoldsClip(clips[call.scene], call.arg)
          /\ \A v \in VideoClips : HoldsClip(clips[v], clips[v].video))
    /\ [][call'.op = "_nativeAsset"
             => \A v \in VideoClips \ {call'.scene} : clips'[v] = clips[v]]_vars

\* null has just been assigned to V1, while V2 holds a clip of duration 3 and V3 an
\* object without a duration.
C33_Witness ==
    /\ call.op = "_nativeAsset" /\ call.scene = "V1" /\ call.arg = NoValue
    /\ ~clips["V1"].loaded /\ clips["V1"].duration = 0
    /\ clips["V2"].loaded /\ clips["V2"].duration = 3
    /\ clips["V3"].loaded /\ clips["V3"].video = [src |-> "clip"]

====
